---------------------------- MODULE Spec2Model ----------------------------
(***************************************************************************)
(* playlist-forge: the anchor / gap-fill resolution engine.               *)
(*                                                                         *)
(*   engine/gapFiller.ts       fillGaps, buildFromScratch, searchForTopic, *)
(*                             pickBestVideo, mapTopicsToAnchor, resequence*)
(*   engine/playlistBuilder.ts buildPlaylistFromSyllabus, handleOneShotMode*)
(*   engine/oneShotSearch.ts   searchOneShot, formatResults                *)
(*   engine/anchorHunter.ts    huntForAnchor, scorePlaylistCoverage        *)
(*   core/searchScraper.ts     calculateDensityScore, rankByDensity,       *)
(*                             filterByDuration                            *)
(*   core/geminiReranker.ts    vibeCheckRerank                             *)
(*                                                                         *)
(* Positions are 0-based as in the code; TLA+ sequences are 1-based, so    *)
(* the topic at position p is toc[p + 1].  Fuse.js scores are in tenths    *)
(* (0.4 is 4).  An async function is cut at its awaits: one action per     *)
(* await, holding the synchronous code that follows it.                    *)
(***************************************************************************)
EXTENDS Integers, Sequences, FiniteSets, TLC

VARIABLES
    entry,          \* the exported function that was called
    prefs,          \* [learningMode, skipAnchorSearch, skipReranker]: options of the build
    toc,            \* syllabus.tableOfContents: the topics, in order
    pc,             \* [fn, at]: the function running and the await it is suspended at
    hunt,           \* huntForAnchor's locals: playlists, index, bestAnchor, bestScore, searchesPerformed,
                    \* and the score of each sequence fetched ({} if it was too short to be scored)
    anchor,         \* the AnchorPlaylist handed to fillGaps (NoAnchor if none)
    mappings,       \* fillGaps: TopicMapping[] of mapTopicsToAnchor
    cursor,         \* index of the gap / topic / query being resolved
    gapEntries,     \* fillGaps: Map<number, PlaylistEntry>, position to entry
    entries,        \* buildFromScratch / searchOneShot: the list being collected
    gapsFailed,     \* topics whose resolution returned null
    ranked,         \* pickBestVideo: the ranked pool while awaiting the reranker
    allCandidates,  \* searchOneShot: the candidates collected over its queries
    outcome,        \* how the invocation ended: [kind |-> "running"|"returned"|"thrown", ...]
    trace,          \* history: external calls made and what each resolver call returned
    pick,           \* pickBestVideo called on its own: its arguments and its result
    keyCount,       \* how many API keys the environment configures
    currentKeyIndex,\* core/gemini.ts: the round-robin counter of the process
    keyIndex,       \* src/lib/gemini.ts: the round-robin counter of the process
    calls,          \* the calls in progress outside the engine: locals and requests made
    ui              \* the Home page: phase, persona, file, playlist, requests in flight

\* the state outside the engine: the Gemini key pools, the video search of
\* the web app and its page
outside == << keyCount, currentKeyIndex, keyIndex, calls, ui >>

vars == << entry, prefs, toc, pc, hunt, anchor, mappings, cursor, gapEntries,
           entries, gapsFailed, ranked, allCandidates, outcome, trace, pick, outside >>

-----------------------------------------------------------------------------
(* Bounds of the model *)

\* topics of a table of contents
MaxTopics == 2
\* distinct videos a catalog search of a build can return
BuildVideos == 4
\* distinct videos handed to pickBestVideo when it is checked on its own
PickVideos == 10
\* playlists a playlist search returns during a build
MaxPlaylists == 2
\* playlists a playlist search returns when huntForAnchor is called on its own
HuntPlaylists == 6
\* lengths of the table of contents when huntForAnchor is called on its own:
\* coverage scores 0, 50, 100 and 0, 33, 67, 100
HuntTocLengths == {2, 3}
\* candidates handed to rankByDensity when it is called on its own
RankLen == 3
\* /api/generate requests of the page that can be in flight together
MaxInFlight == 2
\* Gemini API keys the environment configures (core/gemini.ts reads up to 10)
MaxKeys == 3
\* topics of the table of contents when scorePlaylistCoverage is called on its own
ScoreTopics == 3
\* distinct channel names among the videos findPromisingChannels looks at
MaxChannels == 6

-----------------------------------------------------------------------------
(* Program constants *)

MATCH_THRESHOLD == 4
USE_RERANKER == TRUE
GITHUB_BOOST == 50
LONG_VIDEO_BOOST == 30
MEDIUM_VIDEO_BOOST == 15
DOCUMENTATION_BOOST == 25
ACADEMIC_BOOST == 20
TECHNICAL_BOOST == 15
EMPTY_DESC_PENALTY == -40
HIGH_VIEW_PENALTY_THRESHOLD == 500000
CLICKBAIT_PENALTY == -100
AGGRESSIVE_TITLE_PENALTY == 20
LONG_VIDEO_SECONDS == 900
MEDIUM_VIDEO_SECONDS == 600
SHORT_DESCRIPTION == 100
RAW_SLICE == 15
RELAXED_MIN_SECONDS == 60
RERANK_MIN_POOL == 3
RERANK_TOP == 5
VIDEO_ID_LENGTH == 11

LearningModes == {"from_scratch", "revision", "one_shot"}

DURATION_CONFIGS ==
    [from_scratch |-> [minSeconds |-> 600,  maxSeconds |-> 2700],
     revision     |-> [minSeconds |-> 180,  maxSeconds |-> 900],
     one_shot     |-> [minSeconds |-> 2700, maxSeconds |-> 10800]]

\* resolvePreferences: the part of SearchModifiers the resolver reads
resolvePreferences(p) == [duration |-> DURATION_CONFIGS[p.learningMode]]

-----------------------------------------------------------------------------
(* The catalog: what yt-search can return.  A raw video is what the scraper  *)
(* hands over (any[]): id, duration, views, and what calculateDensityScore   *)
(* looks for in title and description.  hasTitle = FALSE is a result object  *)
(* that carries no title.                                                    *)

RawVideo(id, secs, sig, views, descLen, caps, titled) ==
    [videoId |-> id, seconds |-> secs, signals |-> sig, views |-> views,
     descLen |-> descLen, capsTitle |-> caps, hasTitle |-> titled]

SampleVideos ==
    << RawVideo(1,  700,  {"github"},            1000,   200, FALSE, TRUE),
       RawVideo(2,  1800, {},                    1000,   200, FALSE, TRUE),
       RawVideo(3,  900,  {"documentation"},     1000,   200, FALSE, TRUE),
       RawVideo(4,  800,  {},                    1000,   200, FALSE, FALSE),
       RawVideo(5,  30,   {},                    1000,   200, FALSE, TRUE),
       RawVideo(6,  5000, {"clickbait"},         1000,   200, FALSE, TRUE),
       RawVideo(7,  50,   {"academic"},          1000,   200, FALSE, TRUE),
       RawVideo(8,  1200, {"academic"},          600000, 50,  FALSE, TRUE),
       RawVideo(9,  2000, {},                    1000,   200, TRUE,  TRUE),
       RawVideo(10, 650,  {"colab", "technical"}, 1000,  200, FALSE, TRUE),
       RawVideo(11, 3000, {"github"},            1000,   200, FALSE, TRUE),
       RawVideo(12, 100,  {},                    1000,   200, FALSE, TRUE) >>

Min(a, b) == IF a < b THEN a ELSE b

\* the first n videos of the catalog
Catalog(n) == SubSeq(SampleVideos, 1, Min(n, Len(SampleVideos)))

\* s without the elements at the indices outside keep
RECURSIVE SelectIdx(_, _, _)
SelectIdx(s, keep, i) ==
    IF i > Len(s) THEN << >>
    ELSE (IF i \in keep THEN << s[i] >> ELSE << >>) \o SelectIdx(s, keep, i + 1)

\* every result list a search over the first n catalog videos can give:
\* any selection of them, in catalog order
SearchResults(n) == { SelectIdx(Catalog(n), keep, 1) : keep \in SUBSET (1 .. Min(n, Len(SampleVideos))) }

-----------------------------------------------------------------------------
(* core/searchScraper.ts *)

calculateDensityScore(v) ==
      (IF "github" \in v.signals THEN GITHUB_BOOST ELSE 0)
    + (IF "colab" \in v.signals THEN GITHUB_BOOST ELSE 0)
    + (IF "documentation" \in v.signals THEN DOCUMENTATION_BOOST ELSE 0)
    + (IF "academic" \in v.signals THEN ACADEMIC_BOOST ELSE 0)
    + (IF "technical" \in v.signals THEN TECHNICAL_BOOST ELSE 0)
    + (IF v.seconds > LONG_VIDEO_SECONDS THEN LONG_VIDEO_BOOST
       ELSE IF v.seconds > MEDIUM_VIDEO_SECONDS THEN MEDIUM_VIDEO_BOOST ELSE 0)
    + (IF "clickbait" \in v.signals THEN CLICKBAIT_PENALTY ELSE 0)
    + (IF v.views > HIGH_VIEW_PENALTY_THRESHOLD /\ v.descLen < SHORT_DESCRIPTION
       THEN EMPTY_DESC_PENALTY ELSE 0)
    - (IF v.capsTitle THEN AGGRESSIVE_TITLE_PENALTY ELSE 0)

\* the insertion that puts x before the elements of equal score (a sort that
\* is not stable)
RECURSIVE InsertBeforeEqualScore(_, _)
InsertBeforeEqualScore(sorted, x) ==
    IF sorted = << >> THEN << x >>
    ELSE IF Head(sorted).densityScore > x.densityScore
         THEN << Head(sorted) >> \o InsertBeforeEqualScore(Tail(sorted), x)
         ELSE << x >> \o sorted

\* Array.prototype.sort with (a, b) => b.densityScore - a.densityScore: stable,
\* so x goes after every element whose score is at least its own
RECURSIVE InsertByScore(_, _)
InsertByScore(sorted, x) ==
    IF sorted = << >> THEN << x >>
    ELSE IF Head(sorted).densityScore >= x.densityScore
         THEN << Head(sorted) >> \o InsertByScore(Tail(sorted), x)
         ELSE << x >> \o sorted

RECURSIVE SortByScore(_)
SortByScore(s) ==
    IF s = << >> THEN << >>
    ELSE InsertByScore(SortByScore(SubSeq(s, 1, Len(s) - 1)), s[Len(s)])

\* { ...v, densityScore: score }: a new object with the fields of v
WithScore(v) ==
    [videoId |-> v.videoId, seconds |-> v.seconds, signals |-> v.signals, views |-> v.views,
     descLen |-> v.descLen, capsTitle |-> v.capsTitle, hasTitle |-> v.hasTitle,
     densityScore |-> calculateDensityScore(v)]

rankByDensity(videos) == SortByScore([i \in 1 .. Len(videos) |-> WithScore(videos[i])])

\* calculateDensityScore reads video.title.toLowerCase(): a TypeError without a title
RankThrows(videos) == \E i \in 1 .. Len(videos) : ~videos[i].hasTitle

filterByDuration(videos, minSeconds) ==
    LET AtLeast(v) == v.seconds >= minSeconds IN SelectSeq(videos, AtLeast)

-----------------------------------------------------------------------------
(* core/geminiReranker.ts *)

\* a video id no catalog video has, and an answer that is no 11-character id
UnknownId == Len(SampleVideos) + 1
TruncatedId == Len(SampleVideos) + 2
IdLength(id) == IF id = TruncatedId THEN VIDEO_ID_LENGTH - 1 ELSE VIDEO_ID_LENGTH

\* what the reranker's environment does on one call: no GEMINI_API_KEY;
\* generateContentWithFailover throws; its text does not parse; or it parses
\* to an object whose winnerId is absent ({}) or some string ({id})
RerankBehaviours(ids) ==
    { [hasKey |-> FALSE, reply |-> "none", winnerId |-> {}] }
    \cup { [hasKey |-> TRUE, reply |-> r, winnerId |-> {}] : r \in {"throw", "unparsable", "json"} }
    \cup { [hasKey |-> TRUE, reply |-> "json", winnerId |-> {id}] : id \in ids \cup {UnknownId, TruncatedId} }

\* RerankerResult.winnerId: {} is null
vibeCheckRerank(b) ==
    IF ~b.hasKey THEN {}
    ELSE IF b.reply = "throw" THEN {}
    ELSE IF b.reply = "unparsable" THEN {}
    ELSE { id \in b.winnerId : IdLength(id) = VIDEO_ID_LENGTH }

-----------------------------------------------------------------------------
(* engine/gapFiller.ts: pickBestVideo *)

Take(s, n) == SubSeq(s, 1, Min(n, Len(s)))

\* the pool without the upper bound of the window (line 266 left out)
PickPoolNoMax(rawVideos, modifiers) ==
    LET candidates == Take(rawVideos, RAW_SLICE)
        filtered == filterByDuration(candidates, modifiers.duration.minSeconds)
    IN  IF Len(filtered) > 0 THEN filtered
        ELSE filterByDuration(candidates, RELAXED_MIN_SECONDS)

\* lines 251-273: the pool pickBestVideo ranks
PickPool(rawVideos, modifiers) ==
    LET candidates == Take(rawVideos, RAW_SLICE)
        NotTooLong(v) == v.seconds <= modifiers.duration.maxSeconds
        filtered == SelectSeq(filterByDuration(candidates, modifiers.duration.minSeconds), NotTooLong)
    IN  IF Len(filtered) > 0 THEN filtered
        ELSE filterByDuration(candidates, RELAXED_MIN_SECONDS)

\* ranked.find(v => v.videoId === winnerId) || ranked[0]
FindWinner(rankedPool, winnerId) ==
    IF \E i \in 1 .. Len(rankedPool) : rankedPool[i].videoId = winnerId
    THEN rankedPool[CHOOSE i \in 1 .. Len(rankedPool) :
                        /\ rankedPool[i].videoId = winnerId
                        /\ \A j \in 1 .. i - 1 : rankedPool[j].videoId # winnerId]
    ELSE rankedPool[1]

\* lines 281, 292-294: the id looked up after the reranker answered
\* (reranked = {} when the reranker was not asked)
ChosenId(rankedPool, reranked) ==
    IF reranked # {} THEN CHOOSE id \in reranked : TRUE ELSE rankedPool[1].videoId

\* the entry built from the reranker's id as it came, without looking it up
\* in the ranked pool (line 295 left out)
PickEntryTrusting(rankedPool, reranked, topic, position) ==
    [position |-> position, videoId |-> ChosenId(rankedPool, reranked),
     durationSeconds |-> rankedPool[1].seconds, topicMatched |-> topic,
     source |-> "gap_fill"]

\* lines 297-308
PickEntry(rankedPool, reranked, topic, position) ==
    LET winner == FindWinner(rankedPool, ChosenId(rankedPool, reranked))
    IN  [position |-> position, videoId |-> winner.videoId,
         durationSeconds |-> winner.seconds, topicMatched |-> topic,
         source |-> "gap_fill"]

\* line 283: is the reranker asked
AsksReranker(rankedPool) == USE_RERANKER /\ Len(rankedPool) >= RERANK_MIN_POOL

\* prepareForLLMRerank(ranked.slice(0, 5)): the ids sent to the reranker
Submitted(rankedPool) == { Take(rankedPool, RERANK_TOP)[i].videoId : i \in 1 .. Min(RERANK_TOP, Len(rankedPool)) }

\* pickBestVideo up to its await: null, a TypeError, the entry, or the ranked
\* pool waiting for the reranker
PickBegin(rawVideos, topic, modifiers, position) ==
    LET pool == PickPool(rawVideos, modifiers) IN
    IF Len(pool) = 0 THEN [kind |-> "null"]
    ELSE IF RankThrows(pool) THEN [kind |-> "throw"]
    ELSE LET r == rankByDensity(pool) IN
         IF AsksReranker(r) THEN [kind |-> "await", ranked |-> r]
         ELSE [kind |-> "entry", ranked |-> r, entry |-> PickEntry(r, {}, topic, position)]

\* pickBestVideo as a whole, the reranker behaving as b when it is asked
pickBestVideo(rawVideos, topic, modifiers, position, b) ==
    LET begun == PickBegin(rawVideos, topic, modifiers, position) IN
    IF begun.kind = "await"
    THEN [kind |-> "entry", ranked |-> begun.ranked, asked |-> TRUE,
          entry |-> PickEntry(begun.ranked, vibeCheckRerank(b), topic, position)]
    ELSE IF begun.kind = "entry"
    THEN [kind |-> "entry", ranked |-> begun.ranked, asked |-> FALSE, entry |-> begun.entry]
    ELSE [kind |-> begun.kind, ranked |-> << >>, asked |-> FALSE]


-----------------------------------------------------------------------------
(* pickBestVideo called on its own *)

CatalogIds(n) == { Catalog(n)[i].videoId : i \in 1 .. Len(Catalog(n)) }

NoAnchor == [videos |-> 0, fuse |-> << >>, coverageScore |-> 0]
NoHunt == [playlists |-> 0, authors |-> {}, index |-> 0, bestAnchor |-> {}, bestScore |-> 0,
           searchesPerformed |-> 0, scores |-> << >>, bestIndex |-> 0]
NoTrace == [searches |-> 0, reranks |-> 0, calls |-> << >>, returns |-> << >>,
            ran |-> << >>, hunted |-> {}, last |-> [query |-> "none", answer |-> "none"]]
NoUi == [phase |-> "hero", persona |-> {}, file |-> {}, playlist |-> << >>, inFlight |-> << >>,
         last |-> "none"]
NoPick == [rawVideos |-> << >>, reranker |-> [hasKey |-> FALSE, reply |-> "none", winnerId |-> {}],
           done |-> FALSE, result |-> [kind |-> "none", ranked |-> << >>, asked |-> FALSE]]

\* nothing runs outside the engine
IdleOutside ==
    /\ keyCount = 0
    /\ currentKeyIndex = 0
    /\ keyIndex = 0
    /\ calls = << >>
    /\ ui = NoUi

InitPick ==
    /\ IdleOutside
    /\ entry = "pickBestVideo"
    /\ prefs \in [learningMode : LearningModes, skipAnchorSearch : {FALSE}, skipReranker : {FALSE}]
    /\ toc = << 1 >>
    /\ pc = [fn |-> "pickBestVideo", at |-> "call"]
    /\ hunt = NoHunt
    /\ anchor = NoAnchor
    /\ mappings = << >>
    /\ cursor = 0
    /\ gapEntries = << >>
    /\ entries = << >>
    /\ gapsFailed = << >>
    /\ ranked = << >>
    /\ allCandidates = << >>
    /\ outcome = [kind |-> "running"]
    /\ trace = NoTrace
    /\ pick \in [rawVideos : SearchResults(PickVideos),
                 reranker : RerankBehaviours(CatalogIds(PickVideos)),
                 done : {FALSE},
                 result : {NoPick.result}]

\* pickBestVideo(rawVideos, topic, modifiers, position) runs to completion
PickCall ==
    /\ pc.fn = "pickBestVideo"
    /\ ~pick.done
    /\ pick' = [pick EXCEPT !.done = TRUE,
                            !.result = pickBestVideo(pick.rawVideos, toc[1],
                                                     resolvePreferences(prefs), 0, pick.reranker)]
    /\ pc' = [fn |-> "pickBestVideo", at |-> "done"]
    /\ UNCHANGED << entry, prefs, toc, hunt, anchor, mappings, cursor, gapEntries,
                    entries, gapsFailed, ranked, allCandidates, outcome, trace, outside >>

NextPick == PickCall

SpecPick == InitPick /\ [][NextPick]_vars


-----------------------------------------------------------------------------
(* Claims about pickBestVideo (SpecPick) *)

\* the call of pickBestVideo: what it was given and what came back
PickWindow == DURATION_CONFIGS[prefs.learningMode]
Examined == { pick.rawVideos[i] : i \in 1 .. Min(RAW_SLICE, Len(pick.rawVideos)) }
InWindow == { v \in Examined : v.seconds >= PickWindow.minSeconds /\ v.seconds <= PickWindow.maxSeconds }
AboveFloor == { v \in Examined : v.seconds >= RELAXED_MIN_SECONDS }
\* the duration-filtered pool, as a set
PoolSet == IF InWindow # {} THEN InWindow ELSE AboveFloor
PoolIds == { v.videoId : v \in PoolSet }
PlaceOf(id) == CHOOSE i \in 1 .. Len(pick.rawVideos) : pick.rawVideos[i].videoId = id
\* the Scorer's top pick: the highest density score, the earliest on a tie
IsTopPick(v) ==
    /\ v \in PoolSet
    /\ \A u \in PoolSet :
          \/ calculateDensityScore(u) < calculateDensityScore(v)
          \/ /\ calculateDensityScore(u) = calculateDensityScore(v)
             /\ PlaceOf(v.videoId) <= PlaceOf(u.videoId)
TopPickIds == { v.videoId : v \in { u \in PoolSet : IsTopPick(u) } }
\* the ids of the five best-ranked candidates, which the reranker was sent
SentIds == { pick.result.ranked[i].videoId : i \in 1 .. Min(RERANK_TOP, Len(pick.result.ranked)) }
\* the id the reranker's answer names, if it names one
AnsweredIds == IF pick.reranker.hasKey /\ pick.reranker.reply = "json"
               THEN { id \in pick.reranker.winnerId : IdLength(id) = VIDEO_ID_LENGTH }
               ELSE {}

\* C5 (as claimed): when the reranker was asked, its winnerId decides the entry
\* only if it is one of the (at most 5) ids it was sent; for every other answer
\* the entry is the Scorer's top pick ranked[0].
C5_TrustedOnlyIfSubmitted ==
    (pick.done /\ pick.result.kind = "entry" /\ pick.result.asked) =>
        \A id \in AnsweredIds :
            id \notin SentIds => pick.result.entry.videoId = pick.result.ranked[1].videoId

C9_DurationWindow ==
    pick.done =>
        /\ pick.result.kind = "entry" =>
              /\ pick.result.entry.durationSeconds >= RELAXED_MIN_SECONDS
              /\ InWindow # {} =>
                    /\ pick.result.entry.videoId \in { v.videoId : v \in InWindow }
                    /\ pick.result.entry.durationSeconds >= PickWindow.minSeconds
                    /\ pick.result.entry.durationSeconds <= PickWindow.maxSeconds
              /\ InWindow = {} => pick.result.entry.videoId \in { v.videoId : v \in AboveFloor }
        /\ AboveFloor = {} => pick.result.kind = "null"

\* window {600, 2700} over durations 30, 700, 1800, 5000: the entry is one of 700, 1800
C9_Witness ==
    /\ pick.done
    /\ prefs.learningMode = "from_scratch"
    /\ { v.seconds : v \in Examined } = {30, 700, 1800, 5000}
    /\ pick.result.kind = "entry"
    /\ pick.result.entry.durationSeconds \in {700, 1800}


-----------------------------------------------------------------------------
(* engine/gapFiller.ts: mapTopicsToAnchor, resequence *)

MIN_ANCHOR_VIDEOS == 3

\* results[0] of fuse.search(topic) over k titles: none, or the best item with
\* its score.  Fuse returns only items scoring within its threshold: any item
\* below it, or (for the first item) exactly at it.
FuseResults(k) ==
    { [found |-> FALSE, item |-> 0, score |-> 0] }
    \cup { [found |-> TRUE, item |-> i, score |-> MATCH_THRESHOLD - 2] : i \in 1 .. k }
    \cup { [found |-> TRUE, item |-> i, score |-> MATCH_THRESHOLD] : i \in 1 .. Min(k, 1) }

\* an AnchorPlaylist over n topics: its videos are the catalog's first ones,
\* and fuse[i] is what Fuse answers for topic i over their titles
Anchors(n) ==
    [videos : {MIN_ANCHOR_VIDEOS}, fuse : [1 .. n -> FuseResults(MIN_ANCHOR_VIDEOS)], coverageScore : {0}]

\* the mapping that takes Fuse's best result as a match whatever its score
\* (line 182 without the score test)
mapTopicsToAnchorAnyResult(tableOfContents, anchorPlaylist) ==
    [i \in 1 .. Len(tableOfContents) |->
        LET r == anchorPlaylist.fuse[i] IN
        IF r.found
        THEN [topic |-> tableOfContents[i], position |-> i - 1, isGap |-> FALSE,
              anchorVideo |-> {r.item}, matchScore |-> r.score]
        ELSE [topic |-> tableOfContents[i], position |-> i - 1, isGap |-> TRUE,
              anchorVideo |-> {}, matchScore |-> 0]]

\* the mapping with the threshold comparison turned around (score > threshold)
mapTopicsToAnchorInverted(tableOfContents, anchorPlaylist) ==
    [i \in 1 .. Len(tableOfContents) |->
        LET r == anchorPlaylist.fuse[i] IN
        IF r.found /\ r.score > MATCH_THRESHOLD
        THEN [topic |-> tableOfContents[i], position |-> i - 1, isGap |-> FALSE,
              anchorVideo |-> {r.item}, matchScore |-> r.score]
        ELSE [topic |-> tableOfContents[i], position |-> i - 1, isGap |-> TRUE,
              anchorVideo |-> {}, matchScore |-> 0]]

mapTopicsToAnchor(tableOfContents, anchorPlaylist) ==
    [i \in 1 .. Len(tableOfContents) |->
        LET r == anchorPlaylist.fuse[i] IN
        IF r.found /\ r.score < MATCH_THRESHOLD
        THEN [topic |-> tableOfContents[i], position |-> i - 1, isGap |-> FALSE,
              anchorVideo |-> {r.item}, matchScore |-> r.score]
        ELSE [topic |-> tableOfContents[i], position |-> i - 1, isGap |-> TRUE,
              anchorVideo |-> {}, matchScore |-> 0]]

IsGap(m) == m.isGap
GapsOf(maps) == SelectSeq(maps, IsGap)

\* entries.sort((a, b) => a.position - b.position): stable
RECURSIVE InsertByPosition(_, _)
InsertByPosition(sorted, x) ==
    IF sorted = << >> THEN << x >>
    ELSE IF Head(sorted).position <= x.position
         THEN << Head(sorted) >> \o InsertByPosition(Tail(sorted), x)
         ELSE << x >> \o sorted

RECURSIVE SortByPosition(_)
SortByPosition(s) ==
    IF s = << >> THEN << >>
    ELSE InsertByPosition(SortByPosition(SubSeq(s, 1, Len(s) - 1)), s[Len(s)])

\* entries.forEach((e, i) => { e.position = i; })
Renumber(s) == [i \in 1 .. Len(s) |-> [s[i] EXCEPT !.position = i - 1]]

\* the merge that keeps a placeholder entry for a gap that was not filled
RECURSIVE MergeWithPlaceholders(_, _, _)
MergeWithPlaceholders(maps, gapMap, i) ==
    IF i > Len(maps) THEN << >>
    ELSE LET m == maps[i]
             here == IF ~m.isGap /\ m.anchorVideo # {}
                     THEN LET v == SampleVideos[CHOOSE a \in m.anchorVideo : TRUE] IN
                          << [position |-> m.position, videoId |-> v.videoId,
                              durationSeconds |-> v.seconds, topicMatched |-> m.topic,
                              source |-> "anchor_playlist"] >>
                     ELSE IF m.position \in DOMAIN gapMap
                     THEN << gapMap[m.position] >>
                     ELSE << [position |-> m.position, videoId |-> 0,
                              durationSeconds |-> 0, topicMatched |-> m.topic,
                              source |-> "gap_fill"] >>
         IN  here \o MergeWithPlaceholders(maps, gapMap, i + 1)

\* lines 322-340: one entry per mapping that has an anchor video or a gap entry
RECURSIVE Merge(_, _, _)
Merge(maps, gapMap, i) ==
    IF i > Len(maps) THEN << >>
    ELSE LET m == maps[i]
             here == IF ~m.isGap /\ m.anchorVideo # {}
                     THEN LET v == SampleVideos[CHOOSE a \in m.anchorVideo : TRUE] IN
                          << [position |-> m.position, videoId |-> v.videoId,
                              durationSeconds |-> v.seconds, topicMatched |-> m.topic,
                              source |-> "anchor_playlist"] >>
                     ELSE IF m.position \in DOMAIN gapMap
                     THEN << gapMap[m.position] >>
                     ELSE << >>
         IN  here \o Merge(maps, gapMap, i + 1)

\* the merge laid out as anchor entries first and gap entries after them,
\* renumbered without the sort by position
resequenceAnchorsFirst(maps, gapMap) ==
    Renumber(Merge(maps, << >>, 1) \o Merge(GapsOf(maps), gapMap, 1))

resequence(maps, gapMap) == Renumber(SortByPosition(Merge(maps, gapMap, 1)))

-----------------------------------------------------------------------------
(* engine/anchorHunter.ts: scorePlaylistCoverage *)

MIN_COVERAGE_THRESHOLD == 50
ANCHOR_GREAT_COVERAGE == 80
HUNT_TOP_PLAYLISTS == 5
FALLBACK_AUTHORS == 3
PROMISING_CHANNELS == 5

\* Math.round(0 / 0 * 100) is NaN: no number of 0..100, and NaN > x is false
\* for every x; it is modelled as a value below every score
NaN == 0 - 1

\* Math.round(x / n * 100)
RoundPercent(x, n) == IF n = 0 THEN NaN ELSE (200 * x + n) \div (2 * n)

\* line 206: results[0].score < 0.4, in tenths
COVERAGE_MATCH_SCORE == 4

\* the matched topics with the comparison made inclusive (score <= 0.4)
MatchedTopicsInclusive(playlist, tableOfContents) ==
    { i \in 1 .. Len(tableOfContents) :
        playlist.fuse[i].found /\ playlist.fuse[i].score <= COVERAGE_MATCH_SCORE }

MatchedTopics(playlist, tableOfContents) ==
    { i \in 1 .. Len(tableOfContents) :
        playlist.fuse[i].found /\ playlist.fuse[i].score < COVERAGE_MATCH_SCORE }

scorePlaylistCoverage(playlist, tableOfContents) ==
    RoundPercent(Cardinality(MatchedTopics(playlist, tableOfContents)), Len(tableOfContents))

\* what getPlaylistVideos can give for one playlist over n topics: no videos
\* (also a failed fetch), too few, or enough
Playlists(n) ==
    UNION { [videos : {k}, fuse : [1 .. n -> FuseResults(k)], coverageScore : {0}]
            : k \in {0, MIN_ANCHOR_VIDEOS - 1, MIN_ANCHOR_VIDEOS} }


-----------------------------------------------------------------------------
(* A build: fillGaps called with an anchor, or buildPlaylistFromSyllabus *)

ONE_SHOT_MIN_DURATION == 2700
ONE_SHOT_RELAXED_DURATION == 1200
MAX_ONE_SHOT_RESULTS == 5
ONE_SHOT_QUERIES == 3
ONE_SHOT_PER_QUERY == 10

TheOne(set) == CHOOSE x \in set : TRUE

\* syllabus.title: a text that is none of the topics
Subject(tableOfContents) == Len(tableOfContents) + 1

TocOf(n) == [i \in 1 .. n |-> i]

Init ==
    /\ IdleOutside
    /\ entry \in {"fillGaps", "buildPlaylistFromSyllabus"}
    /\ toc \in { TocOf(n) : n \in 1 .. MaxTopics }
    /\ prefs \in [learningMode : LearningModes, skipAnchorSearch : BOOLEAN, skipReranker : BOOLEAN]
    /\ entry = "fillGaps" => ~prefs.skipAnchorSearch /\ ~prefs.skipReranker
    /\ anchor \in IF entry = "fillGaps" THEN Anchors(Len(toc)) ELSE {NoAnchor}
    /\ pc = [fn |-> entry, at |-> "start"]
    /\ hunt = NoHunt
    /\ mappings = << >>
    /\ cursor = 0
    /\ gapEntries = << >>
    /\ entries = << >>
    /\ gapsFailed = << >>
    /\ ranked = << >>
    /\ allCandidates = << >>
    /\ outcome = [kind |-> "running"]
    /\ trace = NoTrace
    /\ pick = NoPick

inputs == << entry, prefs, toc, pick, outside >>

\* searchForTopic(topic, subject, modifiers, position) is called and issues its
\* first ytSearch
TraceCall(tr, topic, position) ==
    [tr EXCEPT !.calls = Append(@, [topic |-> topic, position |-> position]),
               !.searches = @ + 1]

\* an acquisition function (huntForAnchor, fillGaps, buildFromScratch,
\* searchOneShot) is called
TraceRun(tr, fn) == [tr EXCEPT !.ran = Append(@, fn)]

\* huntForAnchor returned res
TraceHunt(tr, res) == [tr EXCEPT !.hunted = {[found |-> res.found, anchor |-> res.anchor # {}]}]

\* a ytSearch of searchForTopic ended: the first query or the fallback query,
\* with a throw, no videos or videos
TraceAnswer(tr, query, answer) == [tr EXCEPT !.last = [query |-> query, answer |-> answer]]

\* searchForTopic returned e: {} is null
TraceReturn(tr, e) == [tr EXCEPT !.returns = Append(@, e)]

\* the function fn returned res to its caller: to the caller of fillGaps, or
\* into buildPlaylistFromSyllabus / handleOneShotMode, which assemble the
\* PlaylistResult (playlistBuilder.ts 214-232, 248-265)
Return(fn, res) ==
    /\ pc' = [fn |-> entry, at |-> "done"]
    /\ outcome' =
          [kind |-> "returned", path |-> fn, result |-> res,
           playlist |-> IF entry # "buildPlaylistFromSyllabus" THEN {}
                        ELSE {[totalVideos |-> Len(res.entries), entries |-> res.entries,
                               anchor |-> IF fn = "fillGaps" THEN {anchor'.coverageScore} ELSE {}]}]

\* the invocation rejected
Thrown(fn) ==
    /\ pc' = [fn |-> entry, at |-> "done"]
    /\ outcome' = [kind |-> "thrown", path |-> fn]

\* fillGaps, lines 86-105 (to its first await) or 86-125 (no gap)
StartFillGaps(a, before) ==
    LET maps == mapTopicsToAnchor(toc, a)
        gaps == GapsOf(maps)
        tr == TraceRun(before, "fillGaps")
    IN  /\ anchor' = a
        /\ mappings' = maps
        /\ UNCHANGED << gapEntries, entries, gapsFailed, ranked, allCandidates >>
        /\ IF gaps = << >>
           THEN /\ cursor' = 0
                /\ trace' = tr
                /\ Return("fillGaps", [entries |-> resequence(maps, << >>), gapsFound |-> 0,
                                       gapsFilled |-> 0, gapsFailed |-> << >>])
           ELSE /\ cursor' = 1
                /\ pc' = [fn |-> "fillGaps", at |-> "search"]
                /\ trace' = TraceCall(tr, gaps[1].topic, gaps[1].position)
                /\ outcome' = outcome

\* buildFromScratch, lines 137-146 (to its first await)
StartScratch(before) ==
    LET tr == TraceRun(before, "buildFromScratch")
    IN  /\ UNCHANGED << anchor, mappings, gapEntries, entries, gapsFailed, ranked, allCandidates >>
        /\ IF Len(toc) = 0
           THEN /\ cursor' = 0
                /\ trace' = tr
                /\ Return("buildFromScratch", [entries |-> << >>, gapsFound |-> 0,
                                               gapsFilled |-> 0, gapsFailed |-> << >>])
           ELSE /\ cursor' = 1
                /\ pc' = [fn |-> "buildFromScratch", at |-> "search"]
                /\ trace' = TraceCall(tr, toc[1], 0)
                /\ outcome' = outcome

\* the topic and position of the searchForTopic call in progress
CurTopic == IF pc.fn = "fillGaps" THEN GapsOf(mappings)[cursor].topic ELSE toc[cursor]
CurPosition == IF pc.fn = "fillGaps" THEN GapsOf(mappings)[cursor].position ELSE cursor - 1

\* fillGaps, lines 107-125: the awaited searchForTopic gave e
FillGapsResumes(e, tr) ==
    LET gaps == GapsOf(mappings)
        gap == gaps[cursor]
        ge == IF e # {} THEN (gap.position :> TheOne(e)) @@ gapEntries ELSE gapEntries
        gf == IF e # {} THEN gapsFailed ELSE Append(gapsFailed, gap.topic)
    IN  /\ gapEntries' = ge
        /\ gapsFailed' = gf
        /\ ranked' = << >>
        /\ UNCHANGED << anchor, mappings, entries, allCandidates >>
        /\ IF cursor < Len(gaps)
           THEN /\ cursor' = cursor + 1
                /\ pc' = [fn |-> "fillGaps", at |-> "search"]
                /\ trace' = TraceCall(TraceReturn(tr, e), gaps[cursor + 1].topic, gaps[cursor + 1].position)
                /\ outcome' = outcome
           ELSE /\ cursor' = cursor
                /\ trace' = TraceReturn(tr, e)
                /\ Return("fillGaps", [entries |-> resequence(mappings, ge), gapsFound |-> Len(gaps),
                                       gapsFilled |-> Cardinality(DOMAIN ge), gapsFailed |-> gf])

\* buildFromScratch, lines 148-160: the awaited searchForTopic gave e
ScratchResumes(e, tr) ==
    LET es == IF e # {} THEN Append(entries, TheOne(e)) ELSE entries
        gf == IF e # {} THEN gapsFailed ELSE Append(gapsFailed, toc[cursor])
    IN  /\ entries' = es
        /\ gapsFailed' = gf
        /\ ranked' = << >>
        /\ UNCHANGED << anchor, mappings, gapEntries, allCandidates >>
        /\ IF cursor < Len(toc)
           THEN /\ cursor' = cursor + 1
                /\ pc' = [fn |-> "buildFromScratch", at |-> "search"]
                /\ trace' = TraceCall(TraceReturn(tr, e), toc[cursor + 1], cursor)
                /\ outcome' = outcome
           ELSE /\ cursor' = cursor
                /\ trace' = TraceReturn(tr, e)
                /\ Return("buildFromScratch", [entries |-> es, gapsFound |-> Len(toc),
                                               gapsFilled |-> Len(es), gapsFailed |-> gf])

\* searchForTopic resolved with e ({} is null)
ResolverReturns(e, tr) ==
    IF pc.fn = "fillGaps" THEN FillGapsResumes(e, tr) ELSE ScratchResumes(e, tr)

\* searchForTopic rejected: neither loop catches, so the build rejects
ResolverRejects(tr) ==
    /\ Thrown(pc.fn)
    /\ trace' = tr
    /\ UNCHANGED << anchor, mappings, cursor, gapEntries, entries, gapsFailed, ranked, allCandidates >>

\* searchForTopic, lines 231 / 234: `return pickBestVideo(...)` hands the
\* promise of pickBestVideo over without awaiting it inside the try block, so
\* a rejection of pickBestVideo is not caught at line 236
PickOutcome(begun, tr) ==
    IF begun.kind = "null" THEN ResolverReturns({}, tr)
    ELSE IF begun.kind = "throw" THEN ResolverRejects(tr)
    ELSE IF begun.kind = "entry" THEN ResolverReturns({begun.entry}, tr)
    ELSE /\ pc' = [pc EXCEPT !.at = "rerank"]
         /\ ranked' = begun.ranked
         /\ trace' = [tr EXCEPT !.reranks = @ + 1]
         /\ UNCHANGED << anchor, mappings, cursor, gapEntries, entries, gapsFailed,
                         allCandidates, outcome >>


\* fillGaps(anchor, tableOfContents, subject, modifiers) is called
FillGapsCalled ==
    /\ pc = [fn |-> "fillGaps", at |-> "start"]
    /\ StartFillGaps(anchor, trace)
    /\ UNCHANGED << inputs, hunt >>

\* searchOneShot, lines 40-52 (to its first await)
StartOneShot ==
    /\ pc' = [fn |-> "searchOneShot", at |-> "query"]
    /\ cursor' = 1
    /\ trace' = [TraceRun(trace, "searchOneShot") EXCEPT !.searches = @ + 1]
    /\ UNCHANGED << anchor, mappings, gapEntries, entries, gapsFailed, ranked,
                    allCandidates, outcome >>

\* huntForAnchor, lines 51-66 (to its first await)
StartHunt ==
    /\ pc' = [fn |-> "huntForAnchor", at |-> "search"]
    /\ trace' = TraceRun(trace, "huntForAnchor")
    /\ UNCHANGED << anchor, mappings, cursor, gapEntries, entries, gapsFailed,
                    ranked, allCandidates, outcome >>

\* the build that hunts for an anchor whatever options.skipAnchorSearch says
BuildCalledHunting ==
    /\ pc = [fn |-> "buildPlaylistFromSyllabus", at |-> "start"]
    /\ IF prefs.learningMode = "one_shot" THEN StartOneShot ELSE StartHunt
    /\ UNCHANGED << inputs, hunt >>

\* buildPlaylistFromSyllabus(options) is called: lines 139-163 / 203
BuildCalled ==
    /\ pc = [fn |-> "buildPlaylistFromSyllabus", at |-> "start"]
    /\ IF prefs.learningMode = "one_shot" THEN StartOneShot
       ELSE IF ~prefs.skipAnchorSearch THEN StartHunt
       ELSE StartScratch(trace)
    /\ UNCHANGED << inputs, hunt >>

\* playlists the playlist search can return, and which of them carry an
\* author name: none, all, or all but the first
PlaylistBound == IF entry = "huntForAnchor" THEN HuntPlaylists ELSE MaxPlaylists
AuthorPatterns(n) == { {}, 1 .. n, 2 .. n }

\* huntForAnchor returned res = [found, anchor, fallbackChannels,
\* searchesPerformed] (anchor: {} is none; fallbackChannels: how many names):
\* to its caller, hunt keeping the locals it returned with, or into
\* buildPlaylistFromSyllabus, which goes on at lines 169-199 with fillGaps or
\* buildFromScratch
HuntReturns(res, locals, tr) ==
    /\ hunt' = IF entry = "huntForAnchor" THEN locals ELSE NoHunt
    /\ IF entry = "huntForAnchor"
       THEN /\ Return("huntForAnchor", res)
            /\ trace' = TraceHunt(tr, res)
            /\ UNCHANGED << anchor, mappings, cursor, gapEntries, entries, gapsFailed,
                            ranked, allCandidates >>
       ELSE IF res.found /\ res.anchor # {}
       THEN StartFillGaps(TheOne(res.anchor), TraceHunt(tr, res))
       ELSE StartScratch(TraceHunt(tr, res))

\* huntForAnchor, lines 80-95: the playlist search answered
HuntSearchReturns ==
    /\ pc = [fn |-> "huntForAnchor", at |-> "search"]
    /\ \/ \* ytSearch threw: line 175, found: false
          HuntReturns([found |-> FALSE, anchor |-> {}, fallbackChannels |-> 0,
                       searchesPerformed |-> 0], hunt, trace)
       \/ \E n \in 0 .. PlaylistBound : \E named \in AuthorPatterns(n) :
             /\ hunt' = [playlists |-> n, authors |-> named, index |-> 1, bestAnchor |-> {},
                         bestScore |-> 0, searchesPerformed |-> 1, scores |-> << >>,
                         bestIndex |-> 0]
             /\ pc' = [fn |-> "huntForAnchor", at |-> IF n = 0 THEN "channels" ELSE "fetch"]
             /\ UNCHANGED << anchor, mappings, cursor, gapEntries, entries, gapsFailed,
                             ranked, allCandidates, outcome, trace >>
    /\ UNCHANGED inputs

\* huntForAnchor, lines 87-94: findPromisingChannels answered with the names
\* of k distinct channels cut to 5 (none when its search threw); found: false
HuntChannelsReturn ==
    /\ pc = [fn |-> "huntForAnchor", at |-> "channels"]
    /\ \E k \in 0 .. MaxChannels :
          HuntReturns([found |-> FALSE, anchor |-> {},
                       fallbackChannels |-> Min(k, PROMISING_CHANNELS),
                       searchesPerformed |-> hunt.searchesPerformed + 1],
                      [hunt EXCEPT !.searchesPerformed = @ + 1], trace)
    /\ UNCHANGED inputs

\* what getPlaylistVideos can give at one fetch: any playlist in a build;
\* when huntForAnchor is called on its own, where the score of every fetched
\* sequence is kept, the playlists whose matches are all on their first item
FetchedPlaylists(n) ==
    IF entry = "huntForAnchor"
    THEN { pl \in Playlists(n) : \A i \in 1 .. n : pl.fuse[i].found => pl.fuse[i].item = 1 }
    ELSE Playlists(n)

\* the result that accepts whatever candidate was retained (line 150 without
\* the coverage threshold)
HuntResultAnyBest(locals) ==
    [found |-> locals.bestAnchor # {}, anchor |-> locals.bestAnchor,
     fallbackChannels |-> 0, searchesPerformed |-> locals.searchesPerformed]

\* huntForAnchor, lines 150-173: the result after the playlist loop
HuntResult(locals) ==
    IF locals.bestAnchor # {} /\ locals.bestScore >= MIN_COVERAGE_THRESHOLD
    THEN [found |-> TRUE, anchor |-> locals.bestAnchor, fallbackChannels |-> 0,
          searchesPerformed |-> locals.searchesPerformed]
    ELSE [found |-> FALSE, anchor |-> {},
          fallbackChannels |-> Cardinality(locals.authors \cap (1 .. FALLBACK_AUTHORS)),
          searchesPerformed |-> locals.searchesPerformed]

\* the comparison that lets an equal score replace the retained candidate
BetterOrEqual(score, bestScore) == score >= bestScore

\* line 123: scored.coverageScore > bestScore
Better(score, bestScore) == score > bestScore

\* the loop that goes on after a great match
LastFetchNoBreak(scored, bestScore, index, playlists) ==
    index >= Min(playlists, HUNT_TOP_PLAYLISTS)

\* lines 105 and 144: the fetch was the last one, by the break at 80 or by
\* the end of playlists.slice(0, 5)
LastFetch(scored, bestScore, index, playlists) ==
    \/ scored /\ bestScore >= ANCHOR_GREAT_COVERAGE
    \/ index >= Min(playlists, HUNT_TOP_PLAYLISTS)

\* huntForAnchor, lines 107-173: getPlaylistVideos answered for the playlist
\* at hunt.index; after the last one huntForAnchor returns
HuntFetchReturns ==
    /\ pc = [fn |-> "huntForAnchor", at |-> "fetch"]
    /\ \E pl \in FetchedPlaylists(Len(toc)) :
          LET scored == pl.videos >= MIN_ANCHOR_VIDEOS
              score == scorePlaylistCoverage(pl, toc)
              better == scored /\ Better(score, hunt.bestScore)
              best == IF better THEN {[pl EXCEPT !.coverageScore = score]} ELSE hunt.bestAnchor
              bestScore == IF better THEN score ELSE hunt.bestScore
              last == LastFetch(scored, bestScore, hunt.index, hunt.playlists)
              locals == [hunt EXCEPT !.bestAnchor = best, !.bestScore = bestScore,
                                     !.searchesPerformed = @ + 1,
                                     !.scores = Append(@, IF scored THEN {score} ELSE {}),
                                     !.bestIndex = IF better THEN hunt.index ELSE @]
          IN  IF ~last
              THEN /\ hunt' = [locals EXCEPT !.index = @ + 1]
                   /\ UNCHANGED << pc, anchor, mappings, cursor, gapEntries, entries,
                                   gapsFailed, ranked, allCandidates, outcome, trace >>
              ELSE HuntReturns(HuntResult(locals), locals, trace)
    /\ UNCHANGED inputs

\* the searchForTopic that issues the fallback query after a throw as well
SearchReturnsRetrying ==
    /\ pc.fn \in {"fillGaps", "buildFromScratch"}
    /\ pc.at = "search"
    /\ \E answer \in {"throw", "none"} :
          /\ pc' = [pc EXCEPT !.at = "fallback"]
          /\ trace' = [TraceAnswer(trace, "first", answer) EXCEPT !.searches = @ + 1]
          /\ UNCHANGED << anchor, mappings, cursor, gapEntries, entries,
                          gapsFailed, ranked, allCandidates, outcome >>
    /\ UNCHANGED << inputs, hunt >>

\* searchForTopic, lines 222-234: the first ytSearch answered
SearchReturns ==
    /\ pc.fn \in {"fillGaps", "buildFromScratch"}
    /\ pc.at = "search"
    /\ \/ \* ytSearch threw: line 236, null
          ResolverReturns({}, TraceAnswer(trace, "first", "throw"))
       \/ \E videos \in SearchResults(BuildVideos) :
             IF Len(videos) = 0
             THEN /\ pc' = [pc EXCEPT !.at = "fallback"]
                  /\ trace' = [TraceAnswer(trace, "first", "none") EXCEPT !.searches = @ + 1]
                  /\ UNCHANGED << anchor, mappings, cursor, gapEntries, entries,
                                  gapsFailed, ranked, allCandidates, outcome >>
             ELSE PickOutcome(PickBegin(videos, CurTopic, resolvePreferences(prefs), CurPosition),
                              TraceAnswer(trace, "first", "videos"))
    /\ UNCHANGED << inputs, hunt >>

\* searchForTopic, lines 227-231: the fallback ytSearch answered
FallbackReturns ==
    /\ pc.fn \in {"fillGaps", "buildFromScratch"}
    /\ pc.at = "fallback"
    /\ \/ ResolverReturns({}, TraceAnswer(trace, "fallback", "throw"))
       \/ \E videos \in SearchResults(BuildVideos) :
             IF Len(videos) = 0
             THEN ResolverReturns({}, TraceAnswer(trace, "fallback", "none"))
             ELSE PickOutcome(PickBegin(videos, CurTopic, resolvePreferences(prefs), CurPosition),
                              TraceAnswer(trace, "fallback", "videos"))
    /\ UNCHANGED << inputs, hunt >>

\* pickBestVideo, lines 285-308: vibeCheckRerank answered
RerankReturns ==
    /\ pc.fn \in {"fillGaps", "buildFromScratch"}
    /\ pc.at = "rerank"
    /\ \E b \in RerankBehaviours(CatalogIds(BuildVideos)) :
          ResolverReturns({PickEntry(ranked, vibeCheckRerank(b), CurTopic, CurPosition)}, trace)
    /\ UNCHANGED << inputs, hunt >>

\* seenIds / allCandidates.push, lines 54-72
RECURSIVE AddUnseen(_, _)
AddUnseen(collected, videos) ==
    IF videos = << >> THEN collected
    ELSE IF \E i \in 1 .. Len(collected) : collected[i].videoId = Head(videos).videoId
         THEN AddUnseen(collected, Tail(videos))
         ELSE AddUnseen(Append(collected, Head(videos)), Tail(videos))

\* the results without the slice of line 118
formatResultsUncut(rankedVideos, subject, maxResults) ==
    [i \in 1 .. Len(rankedVideos) |->
        [position |-> i - 1, videoId |-> rankedVideos[i].videoId,
         durationSeconds |-> rankedVideos[i].seconds, topicMatched |-> subject,
         source |-> "one_shot"]]

formatResults(rankedVideos, subject, maxResults) ==
    [i \in 1 .. Min(maxResults, Len(rankedVideos)) |->
        [position |-> i - 1, videoId |-> rankedVideos[i].videoId,
         durationSeconds |-> rankedVideos[i].seconds, topicMatched |-> subject,
         source |-> "one_shot"]]

\* what yt-search can return for the one-shot queries when searchOneShot is
\* called on its own: videos around the two duration floors, in the order of
\* the result list
MarathonVideos ==
    << RawVideo(21, 1199, {"academic"},      1000, 200, FALSE, TRUE),
       RawVideo(22, 1200, {},                1000, 200, FALSE, TRUE),
       RawVideo(23, 2699, {},                1000, 200, FALSE, TRUE),
       RawVideo(24, 2700, {},                1000, 200, FALSE, TRUE),
       RawVideo(25, 3000, {"github"},        1000, 200, FALSE, TRUE),
       RawVideo(26, 5000, {"clickbait"},     1000, 200, FALSE, TRUE),
       RawVideo(27, 4000, {"documentation"}, 1000, 200, FALSE, TRUE),
       RawVideo(28, 3600, {},                1000, 200, FALSE, TRUE),
       RawVideo(29, 2800, {"github"},        1000, 200, FALSE, TRUE),
       RawVideo(30, 3100, {},                1000, 200, FALSE, FALSE) >>

\* the result lists of one ytSearch(query) of searchOneShot: on its own, any
\* run of consecutive marathon videos
OneShotAnswers ==
    IF entry = "searchOneShot"
    THEN { SubSeq(MarathonVideos, a, b) : a \in 1 .. Len(MarathonVideos) + 1,
                                          b \in 0 .. Len(MarathonVideos) }
    ELSE SearchResults(BuildVideos)

\* searchOneShot, lines 52-97: the ytSearch of query `cursor` answered
OneShotQueryReturns ==
    /\ pc = [fn |-> "searchOneShot", at |-> "query"]
    /\ \E answer \in {<< "throw", << >> >>} \cup { << "videos", v >> : v \in OneShotAnswers } :
       \E collected \in { IF answer[1] = "throw" THEN allCandidates
                           ELSE AddUnseen(allCandidates, Take(answer[2], ONE_SHOT_PER_QUERY)) } :
          /\ allCandidates' = collected
          /\ UNCHANGED << anchor, mappings, gapEntries, entries, gapsFailed, ranked >>
          /\ IF cursor < ONE_SHOT_QUERIES
             THEN /\ cursor' = cursor + 1
                  /\ pc' = pc
                  /\ trace' = [trace EXCEPT !.searches = @ + 1]
                  /\ outcome' = outcome
             ELSE /\ cursor' = cursor
                  /\ trace' = trace
                  /\ \E longVideos \in { filterByDuration(collected, ONE_SHOT_MIN_DURATION) } :
                     \E chosen \in { IF Len(longVideos) = 0
                                      THEN filterByDuration(collected, ONE_SHOT_RELAXED_DURATION)
                                      ELSE longVideos } :
                        IF Len(chosen) = 0 THEN Return("searchOneShot", [entries |-> << >>])
                        ELSE IF RankThrows(chosen) THEN Thrown("searchOneShot")
                        ELSE \E rankedVideos \in { rankByDensity(chosen) } :
                                Return("searchOneShot",
                                       [entries |-> formatResults(rankedVideos, Subject(toc),
                                                                  MAX_ONE_SHOT_RESULTS)])
    /\ UNCHANGED << inputs, hunt >>

Next ==
    \/ FillGapsCalled
    \/ BuildCalled
    \/ HuntSearchReturns
    \/ HuntChannelsReturn
    \/ HuntFetchReturns
    \/ SearchReturns
    \/ FallbackReturns
    \/ RerankReturns
    \/ OneShotQueryReturns

Spec == Init /\ [][Next]_vars

\* The build with its scheduling: the synchronous steps of a call that was
\* made are taken; the other actions are answers of yt-search and of the
\* reranker, which the code awaits without a timer (gapFiller.ts 222, 227,
\* 285; part_000 80, 226; oneShotSearch.ts 52), so nothing makes them happen
SpecLive == Init /\ [][Next]_vars /\ WF_vars(FillGapsCalled) /\ WF_vars(BuildCalled)

-----------------------------------------------------------------------------
(* huntForAnchor called on its own *)

InitHunt ==
    /\ IdleOutside
    /\ entry = "huntForAnchor"
    /\ toc \in { TocOf(n) : n \in HuntTocLengths }
    /\ prefs = [learningMode |-> "from_scratch", skipAnchorSearch |-> FALSE, skipReranker |-> FALSE]
    /\ pc = [fn |-> "huntForAnchor", at |-> "search"]
    /\ hunt = NoHunt
    /\ anchor = NoAnchor
    /\ mappings = << >>
    /\ cursor = 0
    /\ gapEntries = << >>
    /\ entries = << >>
    /\ gapsFailed = << >>
    /\ ranked = << >>
    /\ allCandidates = << >>
    /\ outcome = [kind |-> "running"]
    /\ trace = NoTrace
    /\ pick = NoPick

NextHunt ==
    \/ HuntSearchReturns
    \/ HuntChannelsReturn
    \/ HuntFetchReturns

SpecHunt == InitHunt /\ [][NextHunt]_vars


-----------------------------------------------------------------------------
(* Claims about a build (Spec) *)

Returned == outcome.kind = "returned"
ReturnedBy(fns) == Returned /\ outcome.path \in fns
Result == outcome.result
\* the place of a topic in the table of contents
TocIndex(topic) == CHOOSE i \in 1 .. Len(toc) : toc[i] = topic
\* the topics Fuse matches to an anchor item below the threshold, and the rest
MatchedIdx == { i \in 1 .. Len(toc) : anchor.fuse[i].found /\ anchor.fuse[i].score < MATCH_THRESHOLD }
GapIdx == (1 .. Len(toc)) \ MatchedIdx
\* the resolver calls made for the topic at index i
CallsFor(i) == { c \in 1 .. Len(trace.calls) :
                    trace.calls[c].topic = toc[i] /\ trace.calls[c].position = i - 1 }
\* the topics of the resolver calls that returned null, in call order
RECURSIVE NullTopics(_)
NullTopics(c) ==
    IF c > Len(trace.returns) THEN << >>
    ELSE (IF trace.returns[c] = {} THEN << trace.calls[c].topic >> ELSE << >>) \o NullTopics(c + 1)

\* C1 (as claimed): on every build path the returned entries carry the
\* positions 0, 1, ..., len - 1 in list order.
C1_PositionsContiguous ==
    ReturnedBy({"fillGaps", "buildFromScratch", "searchOneShot"}) =>
        \A i \in 1 .. Len(Result.entries) : Result.entries[i].position = i - 1

\* C2: the entries of fillGaps and of buildFromScratch follow the order of the
\* table of contents, each topic giving at most one entry.
C2_TopicOrderKept ==
    ReturnedBy({"fillGaps", "buildFromScratch"}) =>
        /\ \A i \in 1 .. Len(Result.entries) :
              \E t \in 1 .. Len(toc) : toc[t] = Result.entries[i].topicMatched
        /\ \A i, j \in 1 .. Len(Result.entries) :
              i < j => TocIndex(Result.entries[i].topicMatched) < TocIndex(Result.entries[j].topicMatched)

C2_Witness ==
    /\ ReturnedBy({"fillGaps"})
    /\ Len(Result.entries) >= 2
    /\ Result.entries[1].source = "gap_fill"
    /\ Result.entries[2].source = "anchor_playlist"

\* C3 (as claimed): no two entries returned by fillGaps refer to the same video.
C3_NoDuplicateVideos ==
    ReturnedBy({"fillGaps"}) =>
        \A i, j \in 1 .. Len(Result.entries) :
            i # j => Result.entries[i].videoId # Result.entries[j].videoId

\* C4 (as claimed): buildPlaylistFromSyllabus never returns a PlaylistResult
\* for a scratch build that resolved no topic.
C4_EmptyScratchBuildFails ==
    (entry = "buildPlaylistFromSyllabus" /\ ReturnedBy({"buildFromScratch"})) =>
        \A r \in outcome.playlist : r.totalVideos > 0

\* C7 (as claimed): every searchForTopic call completes with an entry or
\* null, so when the invocation has ended each call made has returned.
C7_ResolverNeverRejects ==
    (pc.at = "done" /\ entry \in {"fillGaps", "buildPlaylistFromSyllabus"}) =>
        Len(trace.returns) = Len(trace.calls)

C10_FullCoverage ==
    (ReturnedBy({"fillGaps"}) /\ GapIdx = {}) =>
        /\ Len(Result.entries) = Len(toc)
        /\ \A i \in 1 .. Len(Result.entries) : Result.entries[i].source = "anchor_playlist"
        /\ Result.gapsFound = 0
        /\ Result.gapsFailed = << >>
        /\ trace.searches = 0
        /\ trace.reranks = 0
        /\ trace.calls = << >>

C10_Witness ==
    /\ entry = "fillGaps"
    /\ ReturnedBy({"fillGaps"})
    /\ GapIdx = {}
    /\ Len(toc) = MaxTopics
    /\ Len(Result.entries) = MaxTopics

\* buildFromScratch, lines 139-160, run over the first n topics with the
\* searchForTopic call of topic i answering results[i] ({} is null)
RECURSIVE ScratchReplay(_, _, _)
ScratchReplay(tableOfContents, results, n) ==
    IF n = 0 THEN [entries |-> << >>, gapsFailed |-> << >>]
    ELSE LET before == ScratchReplay(tableOfContents, results, n - 1) IN
         IF results[n] # {}
         THEN [before EXCEPT !.entries = Append(@, TheOne(results[n]))]
         ELSE [before EXCEPT !.gapsFailed = Append(@, tableOfContents[n])]

\* C11 (as claimed): with an anchor that matches no topic, fillGaps returns
\* the entries (video, topic, order, position) and the gapsFailed that
\* buildFromScratch returns on the same topics and the same search outcomes.
C11_ZeroCoverageIsScratch ==
    (ReturnedBy({"fillGaps"}) /\ MatchedIdx = {}) =>
        LET scratch == ScratchReplay(toc, trace.returns, Len(toc)) IN
        /\ Result.entries = scratch.entries
        /\ Result.gapsFailed = scratch.gapsFailed

-----------------------------------------------------------------------------
(* searchOneShot called on its own *)

InitOneShot ==
    /\ IdleOutside
    /\ entry = "searchOneShot"
    /\ toc = TocOf(1)
    /\ prefs = [learningMode |-> "one_shot", skipAnchorSearch |-> FALSE, skipReranker |-> FALSE]
    /\ pc = [fn |-> "searchOneShot", at |-> "query"]
    /\ hunt = NoHunt
    /\ anchor = NoAnchor
    /\ mappings = << >>
    /\ cursor = 1
    /\ gapEntries = << >>
    /\ entries = << >>
    /\ gapsFailed = << >>
    /\ ranked = << >>
    /\ allCandidates = << >>
    /\ outcome = [kind |-> "running"]
    /\ trace = [NoTrace EXCEPT !.searches = 1, !.ran = << "searchOneShot" >>]
    /\ pick = NoPick

NextOneShot == OneShotQueryReturns

SpecOneShot == InitOneShot /\ [][NextOneShot]_vars

-----------------------------------------------------------------------------
(* Claims about searchOneShot (SpecOneShot) *)

\* the collected candidates of at least this duration
Reaching(seconds) == { i \in 1 .. Len(allCandidates) : allCandidates[i].seconds >= seconds }

\* C17: searchOneShot returns at most 5 entries of pairwise distinct video ids,
\* all of source one_shot; all of at least 2700 s if a collected candidate is,
\* and of at least 1200 s otherwise; none only if no collected candidate
\* reaches 1200 s; and no answer or failure of a query removes a candidate
\* that an earlier query collected.
C17_OneShotResult ==
    /\ [](ReturnedBy({"searchOneShot"}) =>
            LET out == Result.entries
                floor == IF Reaching(ONE_SHOT_MIN_DURATION) # {}
                         THEN ONE_SHOT_MIN_DURATION ELSE ONE_SHOT_RELAXED_DURATION
            IN  /\ Len(out) <= 5
                /\ \A i, j \in 1 .. Len(out) : i # j => out[i].videoId # out[j].videoId
                /\ \A i \in 1 .. Len(out) :
                      /\ out[i].source = "one_shot"
                      /\ out[i].durationSeconds >= floor
                      /\ \E k \in 1 .. Len(allCandidates) :
                            /\ allCandidates[k].videoId = out[i].videoId
                            /\ allCandidates[k].seconds = out[i].durationSeconds
                /\ Len(out) = 0 <=> Reaching(ONE_SHOT_RELAXED_DURATION) = {})
    /\ [][ /\ Len(allCandidates') >= Len(allCandidates)
            /\ \A i \in 1 .. Len(allCandidates) : allCandidates'[i] = allCandidates[i] ]_vars

\* six collected candidates reach 2700 s, one does not, and five are returned
C17_Witness ==
    /\ ReturnedBy({"searchOneShot"})
    /\ Cardinality(Reaching(ONE_SHOT_MIN_DURATION)) = 6
    /\ Len(allCandidates) > 6
    /\ Len(Result.entries) = 5

-----------------------------------------------------------------------------
(* rankByDensity called on its own, and then on its own output *)

\* the lists of at most n distinct candidates that carry a title
RECURSIVE Lists(_, _)
Lists(videos, n) ==
    IF n = 0 THEN { << >> }
    ELSE LET shorter == Lists(videos, n - 1) IN
         shorter \cup { Append(l, v) : l \in { x \in shorter : Len(x) = n - 1 },
                                        v \in videos }

Distinct(l) == \A i, j \in 1 .. Len(l) : i # j => l[i].videoId # l[j].videoId

RankInputs ==
    { l \in Lists({ SampleVideos[i] : i \in { k \in 1 .. Len(SampleVideos) : SampleVideos[k].hasTitle } },
                   RankLen) : Distinct(l) }

InitRank ==
    /\ IdleOutside
    /\ entry = "rankByDensity"
    /\ toc = << >>
    /\ prefs = [learningMode |-> "from_scratch", skipAnchorSearch |-> FALSE, skipReranker |-> FALSE]
    /\ pc = [fn |-> "rankByDensity", at |-> "call"]
    /\ hunt = NoHunt
    /\ anchor = NoAnchor
    /\ mappings = << >>
    /\ cursor = 0
    /\ gapEntries = << >>
    /\ entries = << >>
    /\ gapsFailed = << >>
    /\ ranked = << >>
    /\ allCandidates \in RankInputs
    /\ outcome = [kind |-> "running"]
    /\ trace = NoTrace
    /\ pick = [NoPick EXCEPT !.rawVideos = allCandidates]

\* rankByDensity(videos) returns; videos is the array allCandidates, which
\* map (line 188) copies before the sort
RankCalled ==
    /\ pc = [fn |-> "rankByDensity", at |-> "call"]
    /\ pc' = [fn |-> "rankByDensity", at |-> "ranked"]
    /\ ranked' = rankByDensity(allCandidates)
    /\ outcome' = [kind |-> "returned", path |-> "rankByDensity",
                   result |-> [ranked |-> ranked', again |-> {}]]
    /\ UNCHANGED << inputs, hunt, anchor, mappings, cursor, gapEntries, entries,
                    gapsFailed, allCandidates, trace >>

\* rankByDensity is called on the list it returned
RankCalledAgain ==
    /\ pc = [fn |-> "rankByDensity", at |-> "ranked"]
    /\ pc' = [fn |-> "rankByDensity", at |-> "done"]
    /\ outcome' = [outcome EXCEPT !.result.again = {rankByDensity(ranked)}]
    /\ UNCHANGED << inputs, hunt, anchor, mappings, cursor, gapEntries, entries,
                    gapsFailed, ranked, allCandidates, trace >>

NextRank ==
    \/ RankCalled
    \/ RankCalledAgain

SpecRank == InitRank /\ [][NextRank]_vars

-----------------------------------------------------------------------------
(* Claims about rankByDensity (SpecRank) *)

\* the place in the input of the candidate with this id
InputPlace(id) == CHOOSE i \in 1 .. Len(pick.rawVideos) : pick.rawVideos[i].videoId = id

\* C16: rankByDensity returns a permutation of its input ordered by density
\* score non-increasing, equal scores keeping their input order; ranking its
\* output again gives the same order; the input list is left as it was.
C16_StableRanking ==
    ReturnedBy({"rankByDensity"}) =>
        LET given == pick.rawVideos
            out == Result.ranked
        IN  /\ Len(out) = Len(given)
            /\ { out[i].videoId : i \in 1 .. Len(out) } = { given[i].videoId : i \in 1 .. Len(given) }
            /\ \A i \in 1 .. Len(out) :
                  /\ out[i].densityScore = calculateDensityScore(given[InputPlace(out[i].videoId)])
                  /\ \A f \in DOMAIN given[1] : out[i][f] = given[InputPlace(out[i].videoId)][f]
            /\ \A i, j \in 1 .. Len(out) :
                  i < j =>
                     /\ out[i].densityScore >= out[j].densityScore
                     /\ out[i].densityScore = out[j].densityScore =>
                           InputPlace(out[i].videoId) < InputPlace(out[j].videoId)
            /\ allCandidates = given
            /\ \A again \in Result.again :
                  /\ Len(again) = Len(out)
                  /\ \A i \in 1 .. Len(out) : again[i].videoId = out[i].videoId

\* three candidates, two of equal score, given in an order the ranking changes
C16_Witness ==
    /\ ReturnedBy({"rankByDensity"})
    /\ Result.again # {}
    /\ Len(Result.ranked) = 3
    /\ \E i \in 1 .. 2 : Result.ranked[i].densityScore = Result.ranked[i + 1].densityScore
    /\ Result.ranked[1].videoId # pick.rawVideos[1].videoId

-----------------------------------------------------------------------------
(* scorePlaylistCoverage called on its own: on a sequence, and then on the   *)
(* sequence after it gained titles that match a superset of the topics       *)

InitScore ==
    /\ IdleOutside
    /\ entry = "scorePlaylistCoverage"
    /\ toc \in { TocOf(n) : n \in 0 .. ScoreTopics }
    /\ prefs = [learningMode |-> "from_scratch", skipAnchorSearch |-> FALSE, skipReranker |-> FALSE]
    /\ pc = [fn |-> "scorePlaylistCoverage", at |-> "call"]
    /\ hunt = NoHunt
    /\ anchor \in Playlists(Len(toc))
    /\ mappings = << >>
    /\ cursor = 0
    /\ gapEntries = << >>
    /\ entries = << >>
    /\ gapsFailed = << >>
    /\ ranked = << >>
    /\ allCandidates = << >>
    /\ outcome = [kind |-> "running"]
    /\ trace = NoTrace
    /\ pick = NoPick

\* scorePlaylistCoverage(playlistVideos, tableOfContents) returns
ScoreCalled ==
    /\ pc = [fn |-> "scorePlaylistCoverage", at |-> "call"]
    /\ pc' = [fn |-> "scorePlaylistCoverage", at |-> "scored"]
    /\ outcome' = [kind |-> "returned", path |-> "scorePlaylistCoverage",
                   result |-> [coverageScore |-> scorePlaylistCoverage(anchor, toc),
                               matchedTopics |-> MatchedTopics(anchor, toc)],
                   earlier |-> {}]
    /\ UNCHANGED << inputs, hunt, anchor, mappings, cursor, gapEntries, entries,
                    gapsFailed, ranked, allCandidates, trace >>

\* scorePlaylistCoverage is called again on the sequence grown to `grown`
ScoreCalledAgain ==
    /\ pc = [fn |-> "scorePlaylistCoverage", at |-> "scored"]
    /\ \E grown \in Playlists(Len(toc)) :
          /\ grown.videos >= anchor.videos
          /\ MatchedTopics(anchor, toc) \subseteq MatchedTopics(grown, toc)
          /\ anchor' = grown
          /\ outcome' = [kind |-> "returned", path |-> "scorePlaylistCoverage",
                         result |-> [coverageScore |-> scorePlaylistCoverage(grown, toc),
                                     matchedTopics |-> MatchedTopics(grown, toc)],
                         earlier |-> {outcome.result}]
    /\ pc' = [fn |-> "scorePlaylistCoverage", at |-> "done"]
    /\ UNCHANGED << inputs, hunt, mappings, cursor, gapEntries, entries,
                    gapsFailed, ranked, allCandidates, trace >>

NextScore ==
    \/ ScoreCalled
    \/ ScoreCalledAgain

SpecScore == InitScore /\ [][NextScore]_vars

-----------------------------------------------------------------------------
(* Claims about scorePlaylistCoverage (SpecScore) *)

\* C14 (as claimed): for a topic list of any length, the coverage score is an
\* integer of 0..100 equal to round(100 * matched / total), 0 when no topic
\* matches, 100 when every topic matches, and not lower after the sequence
\* gained titles that match a superset of the topics.
C14_CoverageIsPercentage ==
    ReturnedBy({"scorePlaylistCoverage"}) =>
        LET score == Result.coverageScore
            matched == Cardinality(Result.matchedTopics)
            total == Len(toc)
        IN  /\ score \in 0 .. 100
            /\ 2 * score * total <= 200 * matched + total
            /\ 2 * score * total > 200 * matched - total \/ total = 0
            /\ matched = 0 => score = 0
            /\ matched = total => score = 100
            /\ \A before \in outcome.earlier : score >= before.coverageScore

-----------------------------------------------------------------------------
(* Claims about huntForAnchor (SpecHunt) *)

\* C13 (as claimed): a found anchor has at least 3 items and coverage >= 50;
\* when no evaluated sequence reaches 50 the hunt returns found = false with at
\* most 3 fallback names and no anchor.
C13_AtMostThreeNames ==
    ReturnedBy({"huntForAnchor"}) =>
        /\ Result.found =>
              /\ Result.anchor # {}
              /\ \A a \in Result.anchor : a.videos >= 3 /\ a.coverageScore >= 50
        /\ hunt.bestScore < 50 =>
              /\ ~Result.found
              /\ Result.anchor = {}
              /\ Result.fallbackChannels <= 3

\* C13 (amended): a found anchor has at least 3 items and coverage >= 50; when
\* no evaluated sequence reaches 50 the hunt returns found = false and no
\* anchor, with at most 3 author names when the search found sequences and at
\* most 5 channel names when it found none.
C13_AcceptAtFifty ==
    ReturnedBy({"huntForAnchor"}) =>
        /\ Result.found =>
              /\ Result.anchor # {}
              /\ \A a \in Result.anchor : a.videos >= 3 /\ a.coverageScore >= 50
        /\ hunt.bestScore < 50 =>
              /\ ~Result.found
              /\ Result.anchor = {}
              /\ hunt.playlists > 0 => Result.fallbackChannels <= 3
              /\ hunt.playlists = 0 => Result.fallbackChannels <= 5

\* four sequences, all with an author, the best covering 1 topic of 3
C13_Witness ==
    /\ ReturnedBy({"huntForAnchor"})
    /\ hunt.playlists >= 4
    /\ hunt.authors = 1 .. hunt.playlists
    /\ hunt.bestAnchor # {}
    /\ hunt.bestScore = 33
    /\ ~Result.found
    /\ Result.fallbackChannels = 3


\* the sequences fetched so far that were scored, and their scores
Scored == { i \in 1 .. Len(hunt.scores) : hunt.scores[i] # {} }
ScoreOf(i) == TheOne(hunt.scores[i])

\* C24: huntForAnchor fetches at most 5 of the discovered sequences, the
\* i-th fetch being of the i-th discovered sequence, and fetches no sequence
\* after one that scored 80 or more.
C24_FetchLimitAndShortCircuit ==
    /\ Len(hunt.scores) <= 5
    /\ Len(hunt.scores) <= hunt.playlists
    /\ \A i \in Scored : ScoreOf(i) >= 80 => i = Len(hunt.scores)
    /\ pc.at = "fetch" =>
          /\ hunt.index = Len(hunt.scores) + 1
          /\ hunt.index <= 5
          /\ hunt.index <= hunt.playlists
          /\ \A i \in Scored : ScoreOf(i) < 80
    /\ Returned /\ hunt.playlists > 0 =>
          /\ hunt.index = Len(hunt.scores)
          /\ hunt.searchesPerformed = Len(hunt.scores) + 1
          /\ \/ Len(hunt.scores) = Min(hunt.playlists, 5)
             \/ \E i \in Scored : ScoreOf(i) >= 80

\* six sequences discovered, the second scores 100 and nothing more is fetched
C24_Witness ==
    /\ Returned
    /\ hunt.playlists = 6
    /\ Len(hunt.scores) = 2
    /\ hunt.scores[1] = {33}
    /\ hunt.scores[2] = {100}

\* C25: the candidate huntForAnchor retains is the earliest fetched sequence,
\* among those of at least 3 items, whose score is the highest and positive
\* (none when no score is positive); a sequence that reaches 80 is the one
\* retained.
C25_EarliestBestRetained ==
    LET positive == { i \in Scored : ScoreOf(i) > 0 }
        top == { i \in positive : \A j \in positive : ScoreOf(j) <= ScoreOf(i) }
    IN  /\ positive = {} => hunt.bestAnchor = {} /\ hunt.bestScore = 0
        /\ positive # {} =>
              /\ hunt.bestIndex \in top
              /\ \A i \in top : hunt.bestIndex <= i
              /\ hunt.bestScore = ScoreOf(hunt.bestIndex)
              /\ \E a \in hunt.bestAnchor :
                    /\ hunt.bestAnchor = {a}
                    /\ a.coverageScore = hunt.bestScore
                    /\ a.videos >= 3
                    /\ scorePlaylistCoverage(a, toc) = hunt.bestScore
        /\ \A i \in Scored : ScoreOf(i) >= 80 => hunt.bestIndex = i
        /\ Returned /\ Result.found => Result.anchor = hunt.bestAnchor

\* the first and the fourth sequence both score 67, a too short one and a
\* lower one lie between, and the first is retained
C25_Witness ==
    /\ Returned
    /\ hunt.scores = << {67}, {}, {33}, {67} >>
    /\ hunt.bestIndex = 1
    /\ Result.found

-----------------------------------------------------------------------------
(* Claims about a build (Spec), continued *)

\* the topics mapTopicsToAnchor left as gaps, and those it mapped to an item
MappedGaps == { i \in 1 .. Len(mappings) : mappings[i].isGap }
MappedToAnchor == { i \in 1 .. Len(mappings) : ~mappings[i].isGap /\ mappings[i].anchorVideo # {} }

\* C12: the topics scorePlaylistCoverage counts as matched are exactly the
\* topics mapTopicsToAnchor maps to an anchor item; for an anchor returned by
\* huntForAnchor, the gaps of fillGaps are the topics the hunt left unmatched,
\* and the anchor's coverage score is the share of topics that are no gap.
C12_ScoringAgreesWithGaps ==
    ReturnedBy({"fillGaps"}) =>
        LET matched == MatchedTopics(anchor, toc)
            unmatched == (1 .. Len(toc)) \ matched
        IN  /\ MappedToAnchor = matched
            /\ MappedGaps = unmatched
            /\ Result.gapsFound = Cardinality(unmatched)
            /\ { TocIndex(trace.calls[c].topic) : c \in 1 .. Len(trace.calls) } = unmatched
            /\ entry = "buildPlaylistFromSyllabus" =>
                  anchor.coverageScore = RoundPercent(Len(toc) - Result.gapsFound, Len(toc))

\* a hunted anchor covering one topic of two, the other one scoring exactly 0.4
C12_Witness ==
    /\ entry = "buildPlaylistFromSyllabus"
    /\ ReturnedBy({"fillGaps"})
    /\ Len(toc) = 2
    /\ anchor.coverageScore = 50
    /\ \E i \in 1 .. Len(toc) : anchor.fuse[i].found /\ anchor.fuse[i].score = 4
    /\ Result.gapsFound = 1

\* C15: every anchor-sourced entry of fillGaps names a topic whose best fuzzy
\* match among the anchor items is the entry's video, with a score below 0.4;
\* every gap_fill entry names the topic of the resolver call that returned it.
C15_TopicMatchedIsJustified ==
    ReturnedBy({"fillGaps"}) =>
        \A k \in 1 .. Len(Result.entries) :
            LET e == Result.entries[k] IN
            /\ e.source \in {"anchor_playlist", "gap_fill"}
            /\ e.source = "anchor_playlist" =>
                  \E i \in 1 .. Len(toc) :
                      /\ toc[i] = e.topicMatched
                      /\ anchor.fuse[i].found
                      /\ anchor.fuse[i].score < 4
                      /\ SampleVideos[anchor.fuse[i].item].videoId = e.videoId
            /\ e.source = "gap_fill" =>
                  \E c \in 1 .. Len(trace.returns) :
                      /\ trace.calls[c].topic = e.topicMatched
                      /\ \E got \in trace.returns[c] :
                            got.videoId = e.videoId /\ got.topicMatched = e.topicMatched

\* an entry from the second anchor item followed by a gap-filled entry
C15_Witness ==
    /\ ReturnedBy({"fillGaps"})
    /\ Len(Result.entries) = 2
    /\ Result.entries[1].source = "anchor_playlist"
    /\ anchor.fuse[1].item = 2
    /\ Result.entries[2].source = "gap_fill"
    /\ trace.returns # << >>

\* the result buildPlaylistFromSyllabus returned
Built == entry = "buildPlaylistFromSyllabus" /\ Returned
Playlist == TheOne(outcome.playlist)

\* C18: a build runs one acquisition path: in one_shot mode searchOneShot
\* alone, with no searchForTopic call; otherwise buildFromScratch alone when
\* skipAnchorSearch is set, and else huntForAnchor first, followed by fillGaps
\* iff the hunt returned found with an anchor and by buildFromScratch iff not.
\* The result carries anchor iff fillGaps ran, and totalVideos is the number
\* of its entries.
C18_OneAcquisitionPath ==
    entry = "buildPlaylistFromSyllabus" =>
        LET ran == trace.ran
            found == \E h \in trace.hunted : h.found /\ h.anchor
            Has(fn) == \E i \in 1 .. Len(ran) : ran[i] = fn
        IN  /\ prefs.learningMode = "one_shot" =>
                  /\ \A i \in 1 .. Len(ran) : ran[i] = "searchOneShot"
                  /\ trace.calls = << >>
            /\ prefs.learningMode # "one_shot" /\ prefs.skipAnchorSearch =>
                  \A i \in 1 .. Len(ran) : ran[i] = "buildFromScratch"
            /\ prefs.learningMode # "one_shot" /\ ~prefs.skipAnchorSearch =>
                  /\ ran # << >> => ran[1] = "huntForAnchor"
                  /\ Len(ran) > 1 =>
                        /\ trace.hunted # {}
                        /\ ran[2] = IF found THEN "fillGaps" ELSE "buildFromScratch"
            /\ Len(ran) <= (IF Has("huntForAnchor") THEN 2 ELSE 1)
            /\ outcome.kind # "running" =>
                  /\ ran # << >>
                  /\ Has("huntForAnchor") => Len(ran) = 2
            /\ Returned =>
                  /\ Playlist.anchor # {} <=> Has("fillGaps")
                  /\ Playlist.totalVideos = Len(Playlist.entries)
                  /\ Playlist.entries = Result.entries

\* a build whose hunt found an anchor and whose fillGaps returned entries
C18_Witness ==
    /\ Built
    /\ trace.ran = << "huntForAnchor", "fillGaps" >>
    /\ Playlist.anchor # {}
    /\ Playlist.totalVideos > 0

\* C19: with options.skipReranker set, the reranker is never invoked, and
\* every entry searchForTopic returns is the first of the density ranking.
C19_SkipRerankerSkips ==
    /\ [](prefs.skipReranker => trace.reranks = 0 /\ pc.at # "rerank")
    /\ [][ (prefs.skipReranker /\ pc.at = "rerank"
              /\ Len(trace'.returns) = Len(trace.returns) + 1) =>
               \A e \in trace'.returns[Len(trace'.returns)] : e.videoId = ranked[1].videoId ]_vars

\* C20: every build eventually returns or throws, whether or not the external
\* calls it awaits ever answer.
C20_BuildTerminates ==
    entry = "buildPlaylistFromSyllabus" => <>(outcome.kind \in {"returned", "thrown"})


\* a step of searchForTopic: the answer of its first or of its fallback search
Resolving == pc.fn \in {"fillGaps", "buildFromScratch"}
NewCall == Len(trace'.calls) = Len(trace.calls) + 1

\* C23: searchForTopic issues its fallback search exactly when its first
\* search returned no video, and not after videos or a throw; no search of
\* the same call follows the fallback search, so a topic costs at most two
\* searches; and when the fallback search returns no video either, the call
\* returns null.
C23_FallbackOnlyAfterEmpty ==
    /\ [][(Resolving /\ pc.at = "search") =>
             /\ trace'.last.query = "first"
             /\ pc'.at = "fallback" <=> trace'.last.answer = "none"]_vars
    /\ [][(pc'.at = "fallback") => (Resolving /\ pc.at = "search" /\ ~NewCall)]_vars
    /\ [][(Resolving /\ trace'.searches # trace.searches) =>
             /\ trace'.searches = trace.searches + 1
             /\ NewCall \/ (pc.at = "search" /\ pc'.at = "fallback")]_vars
    /\ [][(Resolving /\ pc.at = "fallback" /\ trace'.last.answer = "none") =>
             /\ Len(trace'.returns) = Len(trace.returns) + 1
             /\ trace'.returns[Len(trace'.returns)] = {}]_vars

\* one topic, two searches without a video, and null returned
C23_Witness ==
    /\ Len(trace.calls) = 1
    /\ trace.searches = 2
    /\ trace.last = [query |-> "fallback", answer |-> "none"]
    /\ trace.returns = << {} >>

-----------------------------------------------------------------------------
(* core/gemini.ts: the key pool and generateContentWithFailover.  A call is  *)
(* [at, startIndex, attempt, requests]: at is where it is suspended          *)
(* ("idle" before it is made), requests the model requests it has made, in   *)
(* order, each [key, model, outcome] with outcome "pending" while awaited.   *)

\* no engine function runs
IdleEngine ==
    /\ entry = "none"
    /\ toc = << >>
    /\ prefs = [learningMode |-> "from_scratch", skipAnchorSearch |-> FALSE, skipReranker |-> FALSE]
    /\ pc = [fn |-> "none", at |-> "done"]
    /\ hunt = NoHunt
    /\ anchor = NoAnchor
    /\ mappings = << >>
    /\ cursor = 0
    /\ gapEntries = << >>
    /\ entries = << >>
    /\ gapsFailed = << >>
    /\ ranked = << >>
    /\ allCandidates = << >>
    /\ outcome = [kind |-> "running"]
    /\ trace = NoTrace
    /\ pick = NoPick

engine == << entry, prefs, toc, pc, hunt, anchor, mappings, cursor, gapEntries,
             entries, gapsFailed, ranked, allCandidates, outcome, trace, pick >>

PRIMARY_MODEL == "gemini-2.5-flash"
SECONDARY_MODEL == "gemini-2.5-flash-lite"

IdleCall == [at |-> "idle", startIndex |-> 0, attempt |-> 0, requests |-> << >>]

\* how a model request can end: a response, a rate-limit error (429), another
\* error; concurrent calls are followed with one kind of error only
RequestOutcomes == IF Len(calls) > 1 THEN {"ok", "error"} ELSE {"ok", "429", "error"}

\* the numbers of keys, and of calls, that concurrent calls are followed for
ConcurrentKeyCounts == {1, 2, 3}

\* the counter that is not advanced
getNextKeyIndexStuck(current, totalKeys) ==
    [idx |-> current % totalKeys, next |-> current]

\* getNextKeyIndex(totalKeys): the index returned and the counter it leaves;
\* the function holds no await, so it runs to its end once entered
getNextKeyIndex(current, totalKeys) ==
    [idx |-> current % totalKeys, next |-> (current + 1) % totalKeys]

\* the key that is the same for every attempt
keyOfAttemptFixed(startIndex, attempt, totalKeys) == startIndex

\* line 100: keyIndex = (startIndex + attempt) % keys.length
keyOfAttempt(startIndex, attempt, totalKeys) == (startIndex + attempt) % totalKeys

Request(key, model) == [key |-> key, model |-> model, outcome |-> "pending"]

\* the awaited request of call c ended with outcome o
Answered(c, o) == [calls[c].requests EXCEPT ![Len(calls[c].requests)].outcome = o]

\* generateContentWithFailover is called: lines 89-113, to the first await,
\* or the throw of line 92
GeminiCalled ==
    /\ \E c \in 1 .. Len(calls) :
          /\ calls[c].at = "idle"
          /\ IF keyCount = 0
             THEN /\ calls' = [calls EXCEPT ![c].at = "thrown"]
                  /\ UNCHANGED currentKeyIndex
             ELSE LET got == getNextKeyIndex(currentKeyIndex, keyCount) IN
                  /\ currentKeyIndex' = got.next
                  /\ calls' = [calls EXCEPT ![c] =
                                  [at |-> "primary", startIndex |-> got.idx, attempt |-> 0,
                                   requests |-> << Request(keyOfAttempt(got.idx, 0, keyCount),
                                                           PRIMARY_MODEL) >>]]
    /\ UNCHANGED << engine, keyCount, keyIndex, ui >>

\* lines 113-140: the request to the primary model ended
PrimaryAnswers ==
    /\ \E c \in 1 .. Len(calls), o \in RequestOutcomes :
          /\ calls[c].at = "primary"
          /\ calls' = [calls EXCEPT ![c] =
                IF o = "ok"
                THEN [@ EXCEPT !.at = "returned", !.requests = Answered(c, o)]
                ELSE [@ EXCEPT !.at = "secondary",
                               !.requests = Append(Answered(c, o),
                                   Request(keyOfAttempt(calls[c].startIndex, calls[c].attempt, keyCount),
                                           SECONDARY_MODEL))]]
    /\ UNCHANGED << engine, keyCount, currentKeyIndex, keyIndex, ui >>

\* lines 140-174: the request to the secondary model ended; after a failure
\* the loop goes to the next attempt (continue at 155 or 162, or the end of
\* the body at the last key) and past the last key to the throw of line 170
SecondaryAnswers ==
    /\ \E c \in 1 .. Len(calls), o \in RequestOutcomes :
          /\ calls[c].at = "secondary"
          /\ calls' = [calls EXCEPT ![c] =
                IF o = "ok"
                THEN [@ EXCEPT !.at = "returned", !.requests = Answered(c, o)]
                ELSE IF @.attempt + 1 < keyCount
                THEN [@ EXCEPT !.at = "primary", !.attempt = @ + 1,
                               !.requests = Append(Answered(c, o),
                                   Request(keyOfAttempt(calls[c].startIndex, calls[c].attempt + 1,
                                                        keyCount),
                                           PRIMARY_MODEL))]
                ELSE [@ EXCEPT !.at = "thrown", !.requests = Answered(c, o)]]
    /\ UNCHANGED << engine, keyCount, currentKeyIndex, keyIndex, ui >>

NextGemini ==
    \/ GeminiCalled
    \/ PrimaryAnswers
    \/ SecondaryAnswers

\* one call, whatever the counter was left at by earlier calls
InitFailover ==
    /\ IdleEngine
    /\ keyCount \in 0 .. MaxKeys
    /\ currentKeyIndex \in 0 .. (IF keyCount = 0 THEN 0 ELSE keyCount - 1)
    /\ keyIndex = 0
    /\ calls = << IdleCall >>
    /\ ui = NoUi

SpecFailover == InitFailover /\ [][NextGemini]_vars

\* as many concurrent calls as there are keys, made and answered in any order
InitKeys ==
    /\ IdleEngine
    /\ keyCount \in ConcurrentKeyCounts
    /\ currentKeyIndex \in 0 .. keyCount - 1
    /\ keyIndex = 0
    /\ calls = [c \in 1 .. keyCount |-> IdleCall]
    /\ ui = NoUi

SpecKeys == InitKeys /\ [][NextGemini]_vars

-----------------------------------------------------------------------------
(* Claims about core/gemini.ts (SpecKeys, SpecFailover) *)

Made == { c \in 1 .. Len(calls) : calls[c].at # "idle" }

\* C21: with k keys, the start indices of k concurrent calls are pairwise
\* distinct however their requests interleave, and currentKeyIndex stays
\* within 0 .. k-1.
C21_DistinctStartIndices ==
    /\ currentKeyIndex \in 0 .. keyCount - 1
    /\ \A c, d \in Made : c # d => calls[c].startIndex # calls[d].startIndex
    /\ \A c \in Made : calls[c].startIndex \in 0 .. keyCount - 1

\* three keys, three calls made, one of them made while another was awaiting
\* its secondary model
C21_Witness ==
    /\ keyCount = 3
    /\ Made = {1, 2, 3}
    /\ \E c \in Made : calls[c].at = "secondary"
    /\ \E c \in Made : calls[c].at = "primary" /\ calls[c].attempt = 0

\* the requests the one call of SpecFailover has issued, and how one ended
TheCall == calls[1]
Failed(request) == request.outcome \in {"429", "error"}

\* C27: one call tries the keys round-robin from its start index, each key
\* once and the primary model before the secondary on the same key, so it
\* issues at most 2 * numKeys requests; it returns the first successful
\* response, throws only after every key failed on both models, and throws
\* without any request when no key is configured.
C27_RoundRobinFailover ==
    /\ Len(TheCall.requests) <= 2 * keyCount
    /\ \A j \in 1 .. Len(TheCall.requests) :
          /\ TheCall.requests[j].key = (TheCall.startIndex + (j - 1) \div 2) % keyCount
          /\ TheCall.requests[j].model = IF j % 2 = 1 THEN PRIMARY_MODEL ELSE SECONDARY_MODEL
          /\ j < Len(TheCall.requests) => Failed(TheCall.requests[j])
          /\ \A i \in 1 .. j - 1 :
                TheCall.requests[i].key = TheCall.requests[j].key => i = j - 1 /\ j % 2 = 0
    /\ TheCall.at = "returned" => TheCall.requests[Len(TheCall.requests)].outcome = "ok"
    /\ TheCall.at = "thrown" =>
          IF keyCount = 0 THEN TheCall.requests = << >>
          ELSE /\ Len(TheCall.requests) = 2 * keyCount
               /\ \A j \in 1 .. 2 * keyCount : Failed(TheCall.requests[j])

\* three keys, the counter at 1: the call went through keys 1, 2, 0, each on
\* both models, and threw
C27_Witness ==
    /\ keyCount = 3
    /\ TheCall.at = "thrown"
    /\ TheCall.startIndex = 1
    /\ Len(TheCall.requests) = 6
    /\ TheCall.requests[5].key = 0

\* C28: a key that answered a request with 429 gets no further request in
\* the same call.
C28_RateLimitedKeySkipped ==
    \A i, j \in 1 .. Len(TheCall.requests) :
        (i < j /\ TheCall.requests[i].outcome = "429")
            => TheCall.requests[j].key # TheCall.requests[i].key

-----------------------------------------------------------------------------
(* src/lib/gemini.ts: getNextKey and generateContentWithFailover; keyCount is *)
(* KEYS.length, keyIndex the module's counter, calls the calls in progress    *)

\* lines 4-8: the environment variables KEYS is read from
LIB_KEYS == 3

\* calls of generateContentWithFailover that overlap
LibCalls == 2

\* line 15
MODELS == << "gemini-2.5-flash", "gemini-2.5-flash-lite" >>

LibIdleCall == [at |-> "idle", currentKey |-> 0, kidx |-> 0, model |-> 0, requests |-> << >>]

\* lines 26-30: the key returned (by its index in KEYS) and the counter left
getNextKey(index, totalKeys) == [key |-> index, next |-> (index + 1) % totalKeys]

\* lines 39-56: the call takes its first key and awaits the first model
LibGeminiCalled ==
    /\ \E c \in 1 .. Len(calls) :
          /\ calls[c].at = "idle"
          /\ keyIndex' = getNextKey(keyIndex, keyCount).next
          /\ calls' = [calls EXCEPT ![c] =
                [at |-> "awaiting", currentKey |-> getNextKey(keyIndex, keyCount).key,
                 kidx |-> 0, model |-> 1,
                 requests |-> << Request(getNextKey(keyIndex, keyCount).key, MODELS[1]) >>]]
    /\ UNCHANGED << engine, keyCount, currentKeyIndex, ui >>

\* lines 56-72: the awaited generateContent resolved (and response.text()
\* with it) or the try block threw; after the last model of a key the call
\* takes getNextKey() (line 69) and goes on, or leaves the loop and throws
LibModelAnswers ==
    /\ \E c \in 1 .. Len(calls), o \in {"ok", "error"} :
          /\ calls[c].at = "awaiting"
          /\ IF o = "ok"
             THEN /\ calls' = [calls EXCEPT ![c].at = "returned", ![c].requests = Answered(c, o)]
                  /\ UNCHANGED keyIndex
             ELSE IF calls[c].model < Len(MODELS)
             THEN /\ calls' = [calls EXCEPT
                        ![c].model = calls[c].model + 1,
                        ![c].requests = Append(Answered(c, o),
                              Request(calls[c].currentKey, MODELS[calls[c].model + 1]))]
                  /\ UNCHANGED keyIndex
             ELSE /\ keyIndex' = getNextKey(keyIndex, keyCount).next
                  /\ calls' = [calls EXCEPT
                        ![c].currentKey = getNextKey(keyIndex, keyCount).key,
                        ![c].kidx = calls[c].kidx + 1,
                        ![c].model = 1,
                        ![c].at = IF calls[c].kidx + 1 < keyCount THEN "awaiting" ELSE "thrown",
                        ![c].requests =
                            IF calls[c].kidx + 1 < keyCount
                            THEN Append(Answered(c, o),
                                        Request(getNextKey(keyIndex, keyCount).key, MODELS[1]))
                            ELSE Answered(c, o)]
    /\ UNCHANGED << engine, keyCount, currentKeyIndex, ui >>

NextLib == LibGeminiCalled \/ LibModelAnswers

\* the module is loaded with at least one key (lines 10-12); the counter is
\* where earlier calls left it
InitLib ==
    /\ IdleEngine
    /\ keyCount \in 1 .. LIB_KEYS
    /\ keyIndex \in 0 .. keyCount - 1
    /\ currentKeyIndex = 0
    /\ calls \in { [c \in 1 .. n |-> LibIdleCall] : n \in 1 .. LibCalls }
    /\ ui = NoUi

SpecLib == InitLib /\ [][NextLib]_vars

\* C29: a call that throws has requested every configured key with both
\* models, whatever other calls did to keyIndex in between.
C29_EveryKeyTriedBeforeThrow ==
    \A c \in 1 .. Len(calls) :
        calls[c].at = "thrown" =>
            \A k \in 0 .. keyCount - 1 : \A m \in 1 .. Len(MODELS) :
                \E j \in 1 .. Len(calls[c].requests) :
                    calls[c].requests[j].key = k /\ calls[c].requests[j].model = MODELS[m]

-----------------------------------------------------------------------------
(* The video search (part_011): searchYouTubeAPIWithRotation and the scraper  *)
(* fallback of searchVideoForModule / searchVideoReplacement; keyCount is the *)
(* length of getApiKeys(), calls holds the one search in progress             *)

\* lines 33-37: the environment variables the keys are read from
YOUTUBE_KEYS == 3

\* maxResults of the API request (line 55)
API_MAX_RESULTS == 10

\* r.videos.slice(0, 10) and r.videos.slice(0, 15) (lines 139, 191)
ScraperSlice == [searchVideoForModule |-> 10, searchVideoReplacement |-> 15]

\* how the request with one key can end: an ok response with items, with an
\* empty items array, without items, or with a body that json() or
\* mapApiToRaw throws on; status 403; another error status; a rejected fetch
ApiAnswers == {"items", "empty", "noitems", "malformed", "403", "status", "network"}

\* what the scraper gives: a rejected import or search, or the videos found
ScraperFinds ==
    { [threw |-> TRUE, videos |-> 0] } \cup { [threw |-> FALSE, videos |-> n] : n \in {0, 3, 20} }

\* the loop that goes to the next key after every kind of failure
RotatesOnAnyFailure(answer) == answer \in {"403", "status", "network", "malformed"}

\* lines 76-86: continue after status 403 and in the catch block; every other
\* answer ends the loop (return at 61 and 64, break at 81)
Rotates(answer) == answer \in {"403", "network", "malformed"}

\* the videos searchYouTubeAPIWithRotation returns for the answer that ended
\* its loop (lines 59-64; [] at 90)
ApiVideos(answer) == IF answer = "items" THEN API_MAX_RESULTS ELSE 0

IdleSearch(fn) ==
    [fn |-> fn, at |-> "idle", requests |-> << >>, apiVideos |-> 0, scraper |-> "none", videos |-> 0]

\* the rotation returned n videos: lines 131-136 / 184-188, the scraper is
\* called when there are none
AfterRotation(search, n) ==
    IF n = 0 THEN [search EXCEPT !.at = "scraping", !.apiVideos = 0, !.scraper = "awaited"]
    ELSE [search EXCEPT !.at = "ranking", !.apiVideos = n, !.videos = n]

\* searchVideoForModule / searchVideoReplacement is called: lines 42-56, to
\* the first fetch, or to the scraper when no key is configured (44-47)
SearchCalled ==
    /\ calls[1].at = "idle"
    /\ calls' = IF keyCount = 0 THEN << AfterRotation(calls[1], 0) >>
                ELSE << [calls[1] EXCEPT !.at = "fetching",
                                         !.requests = << [key |-> 0, outcome |-> "pending"] >>] >>
    /\ UNCHANGED << engine, keyCount, currentKeyIndex, keyIndex, ui >>

\* lines 56-90: the request with key i ended
FetchAnswers ==
    /\ calls[1].at = "fetching"
    /\ \E answer \in ApiAnswers :
          LET i == Len(calls[1].requests) - 1
              answered == [calls[1] EXCEPT !.requests = Answered(1, answer)]
          IN  calls' =
                IF Rotates(answer) /\ i + 1 < keyCount
                THEN << [answered EXCEPT !.requests =
                            Append(@, [key |-> i + 1, outcome |-> "pending"])] >>
                ELSE << AfterRotation(answered, ApiVideos(answer)) >>
    /\ UNCHANGED << engine, keyCount, currentKeyIndex, keyIndex, ui >>

\* lines 136-145 / 188-195: yts resolved or the try block threw
ScraperReturns ==
    /\ calls[1].at = "scraping"
    /\ \E found \in ScraperFinds :
          calls' = << [calls[1] EXCEPT
                         !.at = "ranking",
                         !.scraper = IF found.threw THEN "threw" ELSE "answered",
                         !.videos = Min(found.videos, ScraperSlice[calls[1].fn])] >>
    /\ UNCHANGED << engine, keyCount, currentKeyIndex, keyIndex, ui >>

NextSearch == SearchCalled \/ FetchAnswers \/ ScraperReturns

InitSearch ==
    /\ IdleEngine
    /\ keyCount \in 0 .. YOUTUBE_KEYS
    /\ currentKeyIndex = 0
    /\ keyIndex = 0
    /\ calls \in { << IdleSearch(fn) >> : fn \in {"searchVideoForModule", "searchVideoReplacement"} }
    /\ ui = NoUi

SpecSearch == InitSearch /\ [][NextSearch]_vars

TheSearch == calls[1]
ScraperInvoked == TheSearch.scraper # "none"
RotationOver == TheSearch.at \in {"scraping", "ranking"}

\* the keys are requested in configured order, each at most once
KeysInOrder ==
    /\ Len(TheSearch.requests) <= keyCount
    /\ \A j \in 1 .. Len(TheSearch.requests) : TheSearch.requests[j].key = j - 1

-----------------------------------------------------------------------------
(* The Home page (part_007): phase, persona, file and playlist are its       *)
(* useState cells; inFlight holds the persona each pending handleFileSelect  *)
(* closed over; last is the handler that ran last.                           *)

Personas == [level : {"High School", "Undergrad", "Post-Grad"}, language : {"English", "Hindi"}]

\* the start button that skips the onboarding
handleStartToUpload ==
    /\ ui.phase = "hero"
    /\ ui' = [ui EXCEPT !.phase = "upload", !.last = "handleStart"]
    /\ UNCHANGED << engine, keyCount, currentKeyIndex, keyIndex, calls >>

\* line 19, the Hero's onStart
handleStart ==
    /\ ui.phase = "hero"
    /\ ui' = [ui EXCEPT !.phase = "onboarding", !.last = "handleStart"]
    /\ UNCHANGED << engine, keyCount, currentKeyIndex, keyIndex, calls >>

\* lines 21-24, the Onboarding's onComplete
handleOnboardingComplete ==
    /\ ui.phase = "onboarding"
    /\ \E data \in Personas :
          ui' = [ui EXCEPT !.persona = {data}, !.phase = "upload",
                           !.last = "handleOnboardingComplete"]
    /\ UNCHANGED << engine, keyCount, currentKeyIndex, keyIndex, calls >>

\* line 107, the Back button of the upload phase
backToHero ==
    /\ ui.phase = "upload"
    /\ ui' = [ui EXCEPT !.phase = "hero", !.last = "backToHero"]
    /\ UNCHANGED << engine, keyCount, currentKeyIndex, keyIndex, calls >>

\* lines 26-38, the UploadZone's onFileSelected up to the await of fetch; the
\* zone is on screen in the upload phase and while it leaves for the loading
\* phase (AnimatePresence mode="wait")
handleFileSelect ==
    /\ \/ ui.phase = "upload"
       \/ ui.phase = "loading" /\ ui.last = "handleFileSelect"
    /\ Len(ui.inFlight) < MaxInFlight
    /\ \E f \in {"syllabus.pdf", "notes.png"} :
          ui' = [ui EXCEPT !.file = {f}, !.phase = "loading",
                           !.inFlight = Append(@, ui.persona), !.last = "handleFileSelect"]
    /\ UNCHANGED << engine, keyCount, currentKeyIndex, keyIndex, calls >>

\* lines 38-68: the fetch of a pending handleFileSelect ended: with a
\* playlist of n items, each carrying the level of the persona closed over,
\* or with a failure (rejection, status not ok, unreadable body)
fetchAnswers ==
    /\ \E i \in 1 .. Len(ui.inFlight) :
          LET closed == ui.inFlight[i]
              rest == [j \in 1 .. Len(ui.inFlight) - 1 |->
                          IF j < i THEN ui.inFlight[j] ELSE ui.inFlight[j + 1]]
          IN  \/ \E n \in 0 .. 2 :
                    ui' = [ui EXCEPT !.inFlight = rest, !.phase = "playlist",
                                     !.playlist = [k \in 1 .. n |->
                                                     [position |-> k,
                                                      level |-> { p.level : p \in closed }]],
                                     !.last = "fetchAnswers"]
              \/ ui' = [ui EXCEPT !.inFlight = rest, !.phase = "upload", !.last = "fetchAnswers"]
    /\ UNCHANGED << engine, keyCount, currentKeyIndex, keyIndex, calls >>

\* line 145, the PlaylistView's onBack ("Generate New")
onBack ==
    /\ ui.phase = "playlist"
    /\ ui' = [ui EXCEPT !.phase = "upload", !.last = "onBack"]
    /\ UNCHANGED << engine, keyCount, currentKeyIndex, keyIndex, calls >>

InitHome ==
    /\ IdleEngine
    /\ keyCount = 0
    /\ currentKeyIndex = 0
    /\ keyIndex = 0
    /\ calls = << >>
    /\ ui = NoUi

NextHome ==
    \/ handleStart
    \/ handleOnboardingComplete
    \/ backToHero
    \/ handleFileSelect
    \/ fetchAnswers
    \/ onBack

SpecHome == InitHome /\ [][NextHome]_vars

\* C22: "Generate New" leads from the playlist phase to the upload phase with
\* the persona unchanged; only completing the onboarding changes the persona;
\* and the phases upload, loading and playlist are entered only with a
\* persona.
C22_PersonaKept ==
    /\ [](ui.phase \in {"upload", "loading", "playlist"} => ui.persona # {})
    /\ [][(ui' # ui /\ ui'.last = "onBack") =>
              (ui.phase = "playlist" /\ ui'.phase = "upload" /\ ui'.persona = ui.persona)]_vars
    /\ [][(ui'.persona # ui.persona) =>
              (ui.phase = "onboarding" /\ ui'.last = "handleOnboardingComplete")]_vars

\* back in the upload phase by "Generate New", with the persona and the
\* playlist that was shown
C22_Witness ==
    /\ ui.last = "onBack"
    /\ ui.phase = "upload"
    /\ ui.persona = {[level |-> "Post-Grad", language |-> "Hindi"]}
    /\ Len(ui.playlist) = 2

-----------------------------------------------------------------------------
(* engine/gapFiller.ts: fillGaps with its gaps resolved in any order *)

\* topics of a table of contents whose gaps resolve in any order
OrderTopics == 3

\* the videos a gap's resolution may pick
OrderVideos == 2

\* an anchor whose one matching item is its first
OrderAnchors(n) ==
    [videos : {MIN_ANCHOR_VIDEOS}, fuse : [1 .. n -> FuseResults(1)], coverageScore : {0}]

\* the key that stores entries in the order their resolutions completed
GapKeyByCompletion(gap, completed) == completed

\* line 108: gapEntries.set(gap.position, entry)
GapKey(gap, completed) == gap.position

\* what searchForTopic(gap.topic, .., gap.position) may resolve with: null, or
\* the entry pickBestVideo builds for that topic and position (lines 297-308)
GapResolutions(gap) ==
    { {} } \cup
    { {[position |-> gap.position, videoId |-> SampleVideos[v].videoId,
        durationSeconds |-> SampleVideos[v].seconds, topicMatched |-> gap.topic,
        source |-> "gap_fill"]} : v \in 1 .. OrderVideos }

\* the positions of the gaps whose resolution has completed
Completed == { trace.calls[i].position : i \in 1 .. Len(trace.calls) }

\* fillGaps after line 92, with no gap resolved yet
InitOrder ==
    /\ IdleOutside
    /\ entry = "fillGaps"
    /\ toc \in { TocOf(n) : n \in 1 .. OrderTopics }
    /\ prefs = [learningMode |-> "from_scratch", skipAnchorSearch |-> FALSE, skipReranker |-> FALSE]
    /\ anchor \in OrderAnchors(Len(toc))
    /\ pc = [fn |-> "fillGaps", at |-> "search"]
    /\ hunt = NoHunt
    /\ mappings = mapTopicsToAnchor(toc, anchor)
    /\ cursor = 0
    /\ gapEntries = << >>
    /\ entries = << >>
    /\ gapsFailed = << >>
    /\ ranked = << >>
    /\ allCandidates = << >>
    /\ outcome = [kind |-> "running"]
    /\ trace = NoTrace
    /\ pick = NoPick

\* lines 94-118 for one gap, whichever of the open gaps completes next
GapResolved ==
    /\ pc = [fn |-> "fillGaps", at |-> "search"]
    /\ \E g \in 1 .. Len(GapsOf(mappings)) : \E e \in GapResolutions(GapsOf(mappings)[g]) :
          LET gap == GapsOf(mappings)[g] IN
          /\ gap.position \notin Completed
          /\ gapEntries' = IF e # {} THEN (GapKey(gap, cursor) :> TheOne(e)) @@ gapEntries
                           ELSE gapEntries
          /\ gapsFailed' = IF e # {} THEN gapsFailed ELSE Append(gapsFailed, gap.topic)
          /\ cursor' = cursor + 1
          /\ trace' = TraceReturn(TraceCall(trace, gap.topic, gap.position), e)
    /\ UNCHANGED << inputs, hunt, anchor, mappings, entries, ranked, allCandidates, pc, outcome >>

\* lines 120-125, once every gap has completed
GapsMerged ==
    /\ pc = [fn |-> "fillGaps", at |-> "search"]
    /\ cursor = Len(GapsOf(mappings))
    /\ Return("fillGaps", [entries |-> resequence(mappings, gapEntries),
                           gapsFound |-> Len(GapsOf(mappings)),
                           gapsFilled |-> Cardinality(DOMAIN gapEntries),
                           gapsFailed |-> gapsFailed])
    /\ UNCHANGED << inputs, hunt, anchor, mappings, cursor, gapEntries, entries, gapsFailed,
                    ranked, allCandidates, trace >>

NextOrder == GapResolved \/ GapsMerged

SpecOrder == InitOrder /\ [][NextOrder]_vars

\* what the resolution of the topic at a position gave, whenever it completed
ResolutionAt(position) ==
    trace.returns[CHOOSE i \in 1 .. Len(trace.calls) : trace.calls[i].position = position]

\* the topics in their original order, each with the anchor video matched to
\* it or the entry its own resolution gave, the unresolved ones left out
RECURSIVE InTopicOrder(_)
InTopicOrder(i) ==
    IF i > Len(mappings) THEN << >>
    ELSE LET m == mappings[i]
             here == IF ~m.isGap
                     THEN << [position |-> m.position,
                              videoId |-> SampleVideos[TheOne(m.anchorVideo)].videoId,
                              durationSeconds |-> SampleVideos[TheOne(m.anchorVideo)].seconds,
                              topicMatched |-> m.topic, source |-> "anchor_playlist"] >>
                     ELSE IF ResolutionAt(m.position) # {}
                     THEN << TheOne(ResolutionAt(m.position)) >>
                     ELSE << >>
         IN  here \o InTopicOrder(i + 1)

\* C26: whatever the order in which the gaps are resolved, every resolved
\* entry is stored under the position its topic was given by the mapping, and
\* the entries fillGaps returns are the topics' videos in the original topic
\* order, renumbered from 0: the same list for every resolution order.
C26_OrderIndependent ==
    /\ \A p \in DOMAIN gapEntries :
          /\ p \in Completed
          /\ gapEntries[p] = TheOne(ResolutionAt(p))
          /\ gapEntries[p].topicMatched = mappings[p + 1].topic
    /\ (entry = "fillGaps" /\ Returned /\ trace.ran = << >>)
          => Result.entries = Renumber(InTopicOrder(1))

\* three topics, the middle one matched by the anchor, the last gap resolved
\* before the first
C26_Witness ==
    /\ Returned
    /\ Len(trace.calls) = 2
    /\ trace.calls[1].position = 2
    /\ trace.calls[2].position = 0
    /\ Len(Result.entries) = 3
    /\ Result.entries[1].topicMatched = 1
    /\ Result.entries[3].topicMatched = 3

=============================================================================
